---- MODULE Spec2Model ----
(***************************************************************************)
(* Model of the dungeon crawler's World Model (src/game/dungeon.py).       *)
(*                                                                         *)
(* Coordinates are the code's 0-based (x, y); a grid is a tuple of rows,   *)
(* so the code's grid[y][x] is g[y + 1][x + 1] here.  Python's None is the *)
(* string NoneVal where the code stores an Optional[str], and the index 0  *)
(* where a lookup returns Optional[Monster] / Optional[Item].              *)
(***************************************************************************)
EXTENDS Integers, Sequences, FiniteSets, TLC

VARIABLES
    grid,       \* Dungeon.grid: rows of tiles, 0 = floor, 1 = wall
    player,     \* Dungeon.player: PlayerState
    visited,    \* Dungeon.visited: rows of booleans
    items,      \* Dungeon.items: list of Item
    monsters,   \* Dungeon.monsters: list of Monster
    messages,   \* Dungeon._messages: list of queued event messages
    last,       \* history: the last command, its candidate cell, what it
                \* returned and the world it was applied to
    occupied,   \* history: the cells the player has stood on
    gen,        \* generate_maze's locals while a maze is generated
    view,       \* EOBViewPG: the frame loop's position and the view's fields
    game        \* the text game: Game's fields and the save file

vars == <<grid, player, visited, items, monsters, messages, last, occupied,
          gen, view, game>>

----------------------------------------------------------------------------
(* Bounds of the model.                                                    *)

\* The message queue holds at most MaxMsgs messages: a command that would
\* exceed it waits for a drain.
MaxMsgs == 2
\* Number of outcomes of rng.shuffle(floors) explored per grid.
NumShuffles == 2
\* Number of draw sequences (amounts, weapons, monster stats) explored.
NumStreams == 2
\* generate_maze is called with width and height up to MaxSize.
MaxSize == 7
\* The seeded generator of generate_maze has NumSeeds distinct streams.
NumSeeds == 2
\* Queries probe the cells up to MaxOffset away from the player.
MaxOffset == 2

----------------------------------------------------------------------------
(* Small helpers.                                                          *)

NoneVal == "None"

Min(a, b) == IF a <= b THEN a ELSE b
Max(a, b) == IF a >= b THEN a ELSE b

\* list.remove(e): drops the first element equal to e.
ListRemove(s, e) ==
    LET i == CHOOSE i \in 1..Len(s) :
                 s[i] = e /\ \A j \in 1..(i - 1) : s[j] # e
    IN  SubSeq(s, 1, i - 1) \o SubSeq(s, i + 1, Len(s))

----------------------------------------------------------------------------
(* Grids the program builds a Dungeon from.                                *)

\* generate_long_corridor(length, height)
generate_long_corridor(length0, height0) ==
    LET l1 == IF length0 < 7 THEN 7 ELSE length0
        h1 == IF height0 < 5 THEN 5 ELSE height0
        length == IF l1 % 2 = 0 THEN l1 - 1 ELSE l1
        height == IF h1 % 2 = 0 THEN h1 - 1 ELSE h1
        mid == height \div 2
    IN  [yy \in 1..height |->
            [xx \in 1..length |->
                IF yy - 1 = mid /\ xx - 1 >= 1 /\ xx - 1 < length - 1
                THEN 0 ELSE 1]]

\* A grid generate_maze(7, 7) returns: the carving that starts at (1,1) and
\* visits (3,1), (5,1), (5,3), (3,3), (1,3), (1,5), (3,5), (5,5) without
\* ever backtracking before the last cell.
Maze7 ==
    << <<1, 1, 1, 1, 1, 1, 1>>,
       <<1, 0, 0, 0, 0, 0, 1>>,
       <<1, 1, 1, 1, 1, 0, 1>>,
       <<1, 0, 0, 0, 0, 0, 1>>,
       <<1, 0, 1, 1, 1, 1, 1>>,
       <<1, 0, 0, 0, 0, 0, 1>>,
       <<1, 1, 1, 1, 1, 1, 1>> >>

\* default_map(): # is the wall 1, . and the blank are the floor 0.
default_map ==
    << <<1, 1, 1, 1, 1, 1, 1, 1, 1, 1, 1, 1, 1, 1, 1, 1>>,
       <<1, 0, 0, 0, 0, 0, 0, 1, 0, 0, 0, 0, 0, 0, 0, 1>>,
       <<1, 0, 1, 1, 1, 1, 0, 1, 0, 1, 1, 1, 1, 1, 0, 1>>,
       <<1, 0, 1, 0, 0, 1, 0, 1, 0, 1, 0, 0, 0, 1, 0, 1>>,
       <<1, 0, 1, 0, 0, 1, 0, 0, 0, 1, 0, 0, 0, 1, 0, 1>>,
       <<1, 0, 1, 0, 0, 1, 1, 1, 1, 1, 0, 0, 0, 1, 0, 1>>,
       <<1, 0, 1, 0, 0, 0, 0, 0, 0, 0, 0, 0, 0, 1, 0, 1>>,
       <<1, 0, 1, 0, 0, 0, 1, 1, 1, 1, 1, 1, 0, 1, 0, 1>>,
       <<1, 0, 1, 0, 0, 0, 1, 0, 0, 0, 0, 1, 0, 1, 0, 1>>,
       <<1, 0, 1, 0, 0, 0, 1, 0, 1, 1, 0, 1, 0, 1, 0, 1>>,
       <<1, 0, 1, 0, 0, 0, 1, 0, 1, 1, 0, 1, 0, 1, 0, 1>>,
       <<1, 0, 1, 0, 0, 0, 1, 0, 0, 0, 0, 1, 0, 1, 0, 1>>,
       <<1, 0, 1, 0, 0, 0, 1, 1, 1, 1, 1, 1, 0, 1, 0, 1>>,
       <<1, 0, 1, 0, 0, 0, 0, 0, 0, 0, 0, 0, 0, 1, 0, 1>>,
       <<1, 0, 0, 0, 0, 0, 0, 0, 0, 0, 0, 0, 0, 0, 0, 1>>,
       <<1, 1, 1, 1, 1, 1, 1, 1, 1, 1, 1, 1, 1, 1, 1, 1>> >>

\* main(): Dungeon(grid=generate_long_corridor(...), procedural=False) or
\* Dungeon(), whose grid is a generated maze.
Grids == { generate_long_corridor(16, 6), Maze7 }

----------------------------------------------------------------------------
(* Queries.  A world d is the record of the Dungeon's fields.              *)

GridH(g) == Len(g)
GridW(g) == Len(g[1])

\* Mutant of is_wall: only tiles inside the grid count as walls.
IsWallInsideOnly(d, x, y) ==
    /\ 0 <= y /\ y < Len(d.grid) /\ 0 <= x /\ x < Len(d.grid[1])
    /\ d.grid[y + 1][x + 1] = 1

is_wall(d, x, y) ==
    IF y < 0 \/ y >= Len(d.grid) \/ x < 0 \/ x >= Len(d.grid[1])
    THEN TRUE
    ELSE d.grid[y + 1][x + 1] = 1

\* PlayerState.atk
atk(p) == p.base_atk + p.weapon_atk

\* Mutant of _dir_vec: north and south are exchanged.
DirVecFlipped(d) ==
    LET f == d.player.facing
    IN  IF f = 0 THEN <<0, 1>>
        ELSE IF f = 1 THEN <<1, 0>>
        ELSE IF f = 2 THEN <<0, -1>>
        ELSE <<-1, 0>>

_dir_vec(d) ==
    LET f == d.player.facing
    IN  IF f = 0 THEN <<0, -1>>
        ELSE IF f = 1 THEN <<1, 0>>
        ELSE IF f = 2 THEN <<0, 1>>
        ELSE <<-1, 0>>

\* Mutant of transform_local: facing west, right is mirrored.
TransformLocalMirrored(d, forward, right) ==
    LET px == d.player.x
        py == d.player.y
        f == d.player.facing
    IN  IF f = 0 THEN <<px + right, py - forward>>
        ELSE IF f = 1 THEN <<px + forward, py + right>>
        ELSE IF f = 2 THEN <<px - right, py + forward>>
        ELSE <<px - forward, py + right>>

transform_local(d, forward, right) ==
    LET px == d.player.x
        py == d.player.y
        f == d.player.facing
    IN  IF f = 0 THEN <<px + right, py - forward>>
        ELSE IF f = 1 THEN <<px + forward, py + right>>
        ELSE IF f = 2 THEN <<px - right, py + forward>>
        ELSE <<px - forward, py - right>>

\* Index of the first monster at (x, y); 0 is the code's None.
_monster_at(d, x, y) ==
    IF \E i \in 1..Len(d.monsters) : d.monsters[i].x = x /\ d.monsters[i].y = y
    THEN CHOOSE i \in 1..Len(d.monsters) :
             /\ d.monsters[i].x = x /\ d.monsters[i].y = y
             /\ \A j \in 1..(i - 1) :
                    ~(d.monsters[j].x = x /\ d.monsters[j].y = y)
    ELSE 0

\* Index of the first item at (x, y); 0 is the code's None.
_item_at(d, x, y) ==
    IF \E i \in 1..Len(d.items) : d.items[i].x = x /\ d.items[i].y = y
    THEN CHOOSE i \in 1..Len(d.items) :
             /\ d.items[i].x = x /\ d.items[i].y = y
             /\ \A j \in 1..(i - 1) :
                    ~(d.items[j].x = x /\ d.items[j].y = y)
    ELSE 0

_find_first_floor(d) ==
    LET w == GridW(d.grid)
        h == GridH(d.grid)
        free == { i \in 0..(w * h - 1) : ~is_wall(d, i % w, i \div w) }
    IN  IF free = {} THEN <<0, 0>>
        ELSE LET i == CHOOSE i \in free : \A j \in free : i <= j
             IN  <<i % w, i \div w>>

----------------------------------------------------------------------------
(* Messages: the code's formatted strings, kept as their kind and the      *)
(* values formatted into them.                                             *)

Msg(k, n, a, b) == [kind |-> k, name |-> n, a |-> a, b |-> b]

\* f"You defeated the {m.name}!"
MsgDefeated(m) == Msg("defeated", m.name, 0, 0)
\* f"You hit the {m.name} ({m.hp} hp left). It hits you (-{m.atk} hp)."
MsgHit(m) == Msg("hit", m.name, m.hp, m.atk)
\* "You have fallen..."
MsgFallen == Msg("fallen", "", 0, 0)
\* f"Picked up {it.amount} gold."
MsgGold(it) == Msg("gold", "", it.amount, 0)
\* f"Equipped {self.player.weapon} (+{new_atk} atk)."
MsgEquipped(weapon, new_atk) == Msg("equipped", weapon, new_atk, 0)
\* f"Found {it.name or 'weapon'} (+{new_atk}), but kept current."
MsgKept(it, new_atk) ==
    Msg("kept", IF it.name = NoneVal \/ it.name = "" THEN "weapon" ELSE it.name,
        new_atk, 0)

----------------------------------------------------------------------------
(* Movement, combat and pickup.                                            *)

\* Mutant of _mark_visited: the flags are rebuilt with only (x, y) set.
MarkVisitedOnlyCurrent(d, x, y) ==
    IF 0 <= y /\ y < Len(d.visited) /\ 0 <= x /\ x < Len(d.visited[1])
    THEN [d EXCEPT !.visited =
             [j \in 1..Len(@) |->
                 [i \in 1..Len(@[j]) |-> j = y + 1 /\ i = x + 1]]]
    ELSE d

\* Mutant of _mark_visited: the flag is written to the grid, where True is
\* the wall tile 1.
MarkVisitedOnGrid(d, x, y) ==
    IF 0 <= y /\ y < Len(d.visited) /\ 0 <= x /\ x < Len(d.visited[1])
    THEN IF ~is_wall(d, x, y)
         THEN [d EXCEPT !.grid[y + 1][x + 1] = 1]
         ELSE d
    ELSE d

_mark_visited(d, x, y) ==
    IF 0 <= y /\ y < Len(d.visited) /\ 0 <= x /\ x < Len(d.visited[1])
    THEN IF ~is_wall(d, x, y)
         THEN [d EXCEPT !.visited[y + 1][x + 1] = TRUE]
         ELSE d
    ELSE d

\* Mutant of IsBetterWeapon: a weapon of equal bonus replaces the current one.
IsBetterOrEqualWeapon(p, new_atk) ==
    p.weapon = NoneVal \/ new_atk >= p.weapon_atk

\* Line 354: the new weapon replaces the current one.
IsBetterWeapon(p, new_atk) == p.weapon = NoneVal \/ new_atk > p.weapon_atk

\* Mutant of PickGold: the pile is left on the floor.
PickGoldLeavesPile(d, it) ==
    [d EXCEPT !.player.gold = @ + Max(0, it.amount),
              !.messages = Append(@, MsgGold(it))]

\* The gold branch of _on_enter for the item it.
PickGold(d, it) ==
    [d EXCEPT !.player.gold = @ + Max(0, it.amount),
              !.messages = Append(@, MsgGold(it)),
              !.items = ListRemove(@, it)]

\* The weapon branch of _on_enter for the item it.
PickWeapon(d, it) ==
    LET new_atk == Max(0, it.atk)
    IN  IF IsBetterWeapon(d.player, new_atk)
        THEN LET wname == IF it.name = NoneVal \/ it.name = "" THEN "Weapon"
                          ELSE it.name
             IN  [d EXCEPT !.player.weapon = wname,
                           !.player.weapon_atk = new_atk,
                           !.messages = Append(@, MsgEquipped(wname, new_atk)),
                           !.items = ListRemove(@, it)]
        ELSE [d EXCEPT !.messages = Append(@, MsgKept(it, new_atk)),
                       !.items = ListRemove(@, it)]

_on_enter(d, x, y) ==
    LET i == _item_at(d, x, y)
    IN  IF i = 0 THEN d
        ELSE IF d.items[i].kind = "gold" THEN PickGold(d, d.items[i])
        ELSE IF d.items[i].kind = "weapon" THEN PickWeapon(d, d.items[i])
        ELSE d

\* Mutant of IsDefeated: any blow defeats the monster.
IsDefeatedAtOnce(m) == TRUE

\* Mutant of IsDefeated: a monster at exactly 0 hp fights on.
IsDefeatedBelowZero(m) == m.hp < 0

\* Line 329: the attacked monster is defeated.
IsDefeated(m) == m.hp <= 0

\* Mutant of HasFallen: a player at exactly 0 hp has not fallen.
HasFallenBelowZero(p) == p.hp < 0

\* Line 340: the player has fallen.
HasFallen(p) == p.hp <= 0

\* Mutant of Defeat: the dying monster still strikes back.
DefeatWithLastBlow(d, m, nx, ny) ==
    LET d1 == [d EXCEPT !.messages = Append(@, MsgDefeated(m)),
                        !.monsters = ListRemove(@, m),
                        !.player.hp = @ - Max(0, m.atk),
                        !.player.x = nx,
                        !.player.y = ny]
        d2 == _mark_visited(d1, d1.player.x, d1.player.y)
    IN  _on_enter(d2, nx, ny)

\* Mutant of Defeat: the cell taken from the monster is not marked visited.
DefeatWithoutMark(d, m, nx, ny) ==
    LET d1 == [d EXCEPT !.messages = Append(@, MsgDefeated(m)),
                        !.monsters = ListRemove(@, m),
                        !.player.x = nx,
                        !.player.y = ny]
    IN  _on_enter(d1, nx, ny)

\* Lines 330-335: the monster m, defeated, leaves the list and the player
\* moves onto (nx, ny).
Defeat(d, m, nx, ny) ==
    LET d1 == [d EXCEPT !.messages = Append(@, MsgDefeated(m)),
                        !.monsters = ListRemove(@, m),
                        !.player.x = nx,
                        !.player.y = ny]
        d2 == _mark_visited(d1, d1.player.x, d1.player.y)
    IN  _on_enter(d2, nx, ny)

\* Mutant of Retaliate: the player walks into the monster's cell all the same.
RetaliateAndAdvance(d, m) ==
    LET d1 == [d EXCEPT !.player.hp = @ - Max(0, m.atk),
                        !.messages = Append(@, MsgHit(m)),
                        !.player.x = m.x,
                        !.player.y = m.y]
    IN  IF HasFallen(d1.player)
        THEN [d1 EXCEPT !.messages = Append(@, MsgFallen)]
        ELSE d1

\* Lines 337-341: the surviving monster m retaliates.
Retaliate(d, m) ==
    LET d1 == [d EXCEPT !.player.hp = @ - Max(0, m.atk),
                        !.messages = Append(@, MsgHit(m))]
    IN  IF HasFallen(d1.player)
        THEN [d1 EXCEPT !.messages = Append(@, MsgFallen)]
        ELSE d1

\* Returns the world after the call and the call's result.
_try_combat(d, nx, ny) ==
    LET i == _monster_at(d, nx, ny)
    IN  IF i = 0 THEN [d |-> d, ret |-> FALSE]
        ELSE
        LET d1 == [d EXCEPT !.monsters[i].hp = @ - Max(0, atk(d.player))]
            m == d1.monsters[i]
        IN  IF IsDefeated(m)
            THEN [d |-> Defeat(d1, m, nx, ny), ret |-> TRUE]
            ELSE [d |-> Retaliate(d1, m), ret |-> TRUE]

\* Mutant of StepTo: the wall test is missing.
StepToThroughWalls(d, nx, ny) ==
    LET c == _try_combat(d, nx, ny)
    IN  IF c.ret THEN c.d
        ELSE LET d1 == [d EXCEPT !.player.x = nx, !.player.y = ny]
                 d2 == _mark_visited(d1, d1.player.x, d1.player.y)
             IN  _on_enter(d2, nx, ny)

\* Mutant of StepTo: a blocked step still turns the player around.
StepToBounce(d, nx, ny) ==
    LET c == _try_combat(d, nx, ny)
    IN  IF c.ret THEN c.d
        ELSE IF ~is_wall(d, nx, ny)
        THEN LET d1 == [d EXCEPT !.player.x = nx, !.player.y = ny]
                 d2 == _mark_visited(d1, d1.player.x, d1.player.y)
             IN  _on_enter(d2, nx, ny)
        ELSE [d EXCEPT !.player.facing = (@ + 2) % 4]

\* Mutant of StepTo: the wall test comes before the monster test.
StepToWallFirst(d, nx, ny) ==
    IF is_wall(d, nx, ny) THEN d
    ELSE LET c == _try_combat(d, nx, ny)
         IN  IF c.ret THEN c.d
             ELSE LET d1 == [d EXCEPT !.player.x = nx, !.player.y = ny]
                      d2 == _mark_visited(d1, d1.player.x, d1.player.y)
                  IN  _on_enter(d2, nx, ny)

\* The common body of step_forward and step_back for the candidate (nx, ny).
StepTo(d, nx, ny) ==
    LET c == _try_combat(d, nx, ny)
    IN  IF c.ret THEN c.d
        ELSE IF ~is_wall(d, nx, ny)
        THEN LET d1 == [d EXCEPT !.player.x = nx, !.player.y = ny]
                 d2 == _mark_visited(d1, d1.player.x, d1.player.y)
             IN  _on_enter(d2, nx, ny)
        ELSE d

\* Candidate cells of the two steps.
ForwardCell(d) ==
    LET v == _dir_vec(d) IN <<d.player.x + v[1], d.player.y + v[2]>>
BackCell(d) ==
    LET v == _dir_vec(d) IN <<d.player.x - v[1], d.player.y - v[2]>>

\* Mutant of turn_left: the facing is decremented without wrapping.
TurnLeftNoWrap(d) == [d EXCEPT !.player.facing = @ - 1]

turn_left(d) == [d EXCEPT !.player.facing = (@ - 1) % 4]
turn_right(d) == [d EXCEPT !.player.facing = (@ + 1) % 4]
step_forward(d) == StepTo(d, ForwardCell(d)[1], ForwardCell(d)[2])
step_back(d) == StepTo(d, BackCell(d)[1], BackCell(d)[2])

\* Mutant of drain_messages: the queue is returned but not cleared.
DrainWithoutClear(d) == [d |-> d, ret |-> d.messages]

\* drain_messages: the returned list and the world with the queue cleared.
drain_messages(d) == [d |-> [d EXCEPT !.messages = <<>>], ret |-> d.messages]

----------------------------------------------------------------------------
(* Construction: Dungeon.__init__ and _populate_entities.                  *)

Item(x, y, kind, amount, name, a) ==
    [x |-> x, y |-> y, kind |-> kind, amount |-> amount, name |-> name,
     atk |-> a]
Monster(x, y, name, hp, a) ==
    [x |-> x, y |-> y, name |-> name, hp |-> hp, atk |-> a]
PlayerState(x, y, facing) ==
    [x |-> x, y |-> y, facing |-> facing, hp |-> 10, gold |-> 0,
     base_atk |-> 1, weapon |-> NoneVal, weapon_atk |-> 0]

\* The weapons and names tables of _populate_entities.
weapons == << <<"Dagger", 1>>, <<"Shortsword", 2>>, <<"Axe", 3>> >>
names == <<"Rat", "Goblin", "Skeleton", "Bat">>

\* The population limits of _populate_entities.
GoldPiles == 8
WeaponCount == 3
MonsterMin == 10
MonsterDensity == 5

\* Outcomes of the seeded generator.  rng.shuffle(floors) is one of a family
\* of permutations, numbered sh; the draws of randint and choice are one of
\* a family of sequences, numbered st, every value in the range the code
\* draws from: randint(5, 25), choice(weapons), choice(names),
\* randint(2, 6), randint(1, 3).
Reverse(s) == [i \in 1..Len(s) |-> s[Len(s) + 1 - i]]
Rotate(s, k) ==
    IF Len(s) = 0 THEN s
    ELSE [i \in 1..Len(s) |-> s[((i - 1 + k) % Len(s)) + 1]]
Shuffle(floors, sh) ==
    IF sh % 2 = 0 THEN Reverse(Rotate(floors, 3 * sh))
    ELSE Rotate(floors, 3 * (sh - 1))
DrawAmount(st, i) == 5 + ((7 * i + 3 * st) % 21)
DrawWeapon(st, i) == weapons[((i * st) % 3) + 1]
DrawName(st, i) == names[((i + st) % 4) + 1]
DrawHp(st, i) == 2 + ((3 * i + 2 * st) % 5)
DrawAtk(st, i) == 1 + ((i + st) % 3)

\* Mutant of _populate_entities: the cells of the gold piles are not taken
\* off floors.
PopulateWithoutPop(d, sh, st) ==
    LET w == GridW(d.grid)
        h == GridH(d.grid)
        cells == [i \in 1..(w * h) |-> <<(i - 1) % w, (i - 1) \div w>>]
        IsFree(c) == /\ ~is_wall(d, c[1], c[2])
                     /\ ~(c[1] = d.player.x /\ c[2] = d.player.y)
        floors == Shuffle(SelectSeq(cells, IsFree), sh)
        \* floors.pop() takes the last element
        nGold == Min(GoldPiles, Len(floors))
        gold == [i \in 1..nGold |->
                    LET c == floors[Len(floors) + 1 - i]
                    IN  Item(c[1], c[2], "gold", DrawAmount(st, i), NoneVal, 0)]
        floors2 == floors
        nWeapon == Min(WeaponCount, Len(floors2))
        wpn == [i \in 1..nWeapon |->
                   LET c == floors2[Len(floors2) + 1 - i]
                       wp == DrawWeapon(st, i)
                   IN  Item(c[1], c[2], "weapon", 0, wp[1], wp[2])]
        floors3 == SubSeq(floors2, 1, Len(floors2) - nWeapon)
        target == Max(MonsterMin, Len(floors3) \div MonsterDensity)
        count == Min(target, Len(floors3))
        mon == [i \in 1..count |->
                   LET c == floors3[Len(floors3) + 1 - i]
                   IN  Monster(c[1], c[2], DrawName(st, i), DrawHp(st, i),
                               DrawAtk(st, i))]
    IN  [d EXCEPT !.items = d.items \o gold \o wpn,
                  !.monsters = d.monsters \o mon]

_populate_entities(d, sh, st) ==
    LET w == GridW(d.grid)
        h == GridH(d.grid)
        cells == [i \in 1..(w * h) |-> <<(i - 1) % w, (i - 1) \div w>>]
        IsFree(c) == /\ ~is_wall(d, c[1], c[2])
                     /\ ~(c[1] = d.player.x /\ c[2] = d.player.y)
        floors == Shuffle(SelectSeq(cells, IsFree), sh)
        \* floors.pop() takes the last element
        nGold == Min(GoldPiles, Len(floors))
        gold == [i \in 1..nGold |->
                    LET c == floors[Len(floors) + 1 - i]
                    IN  Item(c[1], c[2], "gold", DrawAmount(st, i), NoneVal, 0)]
        floors2 == SubSeq(floors, 1, Len(floors) - nGold)
        nWeapon == Min(WeaponCount, Len(floors2))
        wpn == [i \in 1..nWeapon |->
                   LET c == floors2[Len(floors2) + 1 - i]
                       wp == DrawWeapon(st, i)
                   IN  Item(c[1], c[2], "weapon", 0, wp[1], wp[2])]
        floors3 == SubSeq(floors2, 1, Len(floors2) - nWeapon)
        target == Max(MonsterMin, Len(floors3) \div MonsterDensity)
        count == Min(target, Len(floors3))
        mon == [i \in 1..count |->
                   LET c == floors3[Len(floors3) + 1 - i]
                   IN  Monster(c[1], c[2], DrawName(st, i), DrawHp(st, i),
                               DrawAtk(st, i))]
    IN  [d EXCEPT !.items = d.items \o gold \o wpn,
                  !.monsters = d.monsters \o mon]

\* Dungeon.__init__(grid=g) with the generator's outcomes sh and st.
DungeonInit(g, sh, st) ==
    LET d0 == [grid |-> g, player |-> PlayerState(0, 0, 1),
               visited |-> <<>>, items |-> <<>>, monsters |-> <<>>,
               messages |-> <<>>]
        start == IF ~is_wall(d0, 1, 1) THEN <<1, 1>>
                 ELSE _find_first_floor(d0)
        d1 == [d0 EXCEPT !.player = PlayerState(start[1], start[2], 1),
                         !.visited = [yy \in 1..Len(g) |->
                                         [xx \in 1..Len(g[1]) |-> FALSE]]]
        d2 == _mark_visited(d1, d1.player.x, d1.player.y)
    IN  _populate_entities(d2, sh, st)

----------------------------------------------------------------------------
(* The state machine: a Dungeon is constructed, then driven through the    *)
(* command surface.                                                        *)

\* No maze is being generated.
NoGen ==
    [pc |-> "idle", width |-> 0, height |-> 0, w |-> 0, h |-> 0,
     grid |-> <<>>, stack |-> <<>>]

\* No view runs: the Dungeon is driven directly.
NoView == [pc |-> "none"]

\* No text game is running.
NoGame == [state |-> "none"]

World ==
    [grid |-> grid, player |-> player, visited |-> visited, items |-> items,
     monsters |-> monsters, messages |-> messages]

\* The world becomes d; the history records the command op, its candidate
\* cell c and its return value ret.
Applies(d, op, c, ret) ==
    /\ grid' = d.grid
    /\ player' = d.player
    /\ visited' = d.visited
    /\ items' = d.items
    /\ monsters' = d.monsters
    /\ messages' = d.messages
    /\ last' = [op |-> op, nx |-> c[1], ny |-> c[2], ret |-> ret,
                pre |-> World]
    /\ occupied' = occupied \cup {<<d.player.x, d.player.y>>}
    /\ gen' = gen
    /\ game' = game

\* A command made on the Dungeon directly, outside a view's frame loop.
Becomes(d, op, c, ret) ==
    /\ Applies(d, op, c, ret)
    /\ view' = view

Init ==
    \E g \in Grids, sh \in 0..(NumShuffles - 1), st \in 0..(NumStreams - 1) :
        LET d == DungeonInit(g, sh, st)
        IN  /\ grid = d.grid
            /\ player = d.player
            /\ visited = d.visited
            /\ items = d.items
            /\ monsters = d.monsters
            /\ messages = d.messages
            /\ last = [op |-> "init", nx |-> d.player.x, ny |-> d.player.y,
                       ret |-> <<>>, pre |-> d]
            /\ occupied = {<<d.player.x, d.player.y>>}
            /\ gen = NoGen
            /\ game = NoGame
            /\ view = NoView

TurnLeft == Becomes(turn_left(World), "turn_left", <<0, 0>>, <<>>)

TurnRight == Becomes(turn_right(World), "turn_right", <<0, 0>>, <<>>)

StepForward ==
    /\ Len(step_forward(World).messages) <= MaxMsgs
    /\ Becomes(step_forward(World), "step_forward", ForwardCell(World), <<>>)

StepBack ==
    /\ Len(step_back(World).messages) <= MaxMsgs
    /\ Becomes(step_back(World), "step_back", BackCell(World), <<>>)

DrainMessages ==
    /\ Becomes(drain_messages(World).d, "drain_messages", <<0, 0>>,
               drain_messages(World).ret)

Next ==
    \/ TurnLeft
    \/ TurnRight
    \/ StepForward
    \/ StepBack
    \/ DrainMessages

Spec == Init /\ [][Next]_vars

\* The grids of the constructions whose population is looked at: those of
\* Grids, the static map, the default test corridor of main.py, a shorter
\* one and the shortest.
BuiltGrids ==
    Grids \cup {default_map, generate_long_corridor(101, 9),
                generate_long_corridor(35, 9), generate_long_corridor(0, 0)}

InitBuilt ==
    \E g \in BuiltGrids, sh \in 0..(NumShuffles - 1),
       st \in 0..(NumStreams - 1) :
        LET d == DungeonInit(g, sh, st)
        IN  /\ grid = d.grid
            /\ player = d.player
            /\ visited = d.visited
            /\ items = d.items
            /\ monsters = d.monsters
            /\ messages = d.messages
            /\ last = [op |-> "init", nx |-> d.player.x, ny |-> d.player.y,
                       ret |-> <<>>, pre |-> d]
            /\ occupied = {<<d.player.x, d.player.y>>}
            /\ gen = NoGen
            /\ game = NoGame
            /\ view = NoView

\* The player looks around and the view drains the queue; no step is taken.
NextBuilt == TurnLeft \/ TurnRight \/ DrainMessages

SpecBuilt == InitBuilt /\ [][NextBuilt]_vars

----------------------------------------------------------------------------
(* Queries: the view's _draw reads the world with is_wall and              *)
(* transform_local once the frame's commands are done and the queue is     *)
(* drained.  All queries of a draw see the same world, so each is taken    *)
(* right after the drain; it is recorded in last and changes nothing.      *)

Offsets == (-MaxOffset)..MaxOffset

IsWallQuery ==
    /\ last.op = "drain_messages"
    /\ \E dx \in Offsets, dy \in Offsets :
           LET x == player.x + dx
               y == player.y + dy
           IN  Becomes(World, "is_wall", <<x, y>>, <<is_wall(World, x, y)>>)

TransformLocalQuery ==
    /\ last.op = "drain_messages"
    /\ \E forward \in Offsets, right \in Offsets :
           Becomes(World, "transform_local", <<forward, right>>,
                   transform_local(World, forward, right))

InitQuery ==
    \E g \in Grids :
        LET d == DungeonInit(g, 0, 0)
        IN  /\ grid = d.grid
            /\ player = d.player
            /\ visited = d.visited
            /\ items = d.items
            /\ monsters = d.monsters
            /\ messages = d.messages
            /\ last = [op |-> "init", nx |-> d.player.x, ny |-> d.player.y,
                       ret |-> <<>>, pre |-> d]
            /\ occupied = {<<d.player.x, d.player.y>>}
            /\ gen = NoGen
            /\ game = NoGame
            /\ view = NoView

NextQuery == Next \/ IsWallQuery \/ TransformLocalQuery

SpecQuery == InitQuery /\ [][NextQuery]_vars

----------------------------------------------------------------------------
(* Persistence, for save data whose fields have the types to_dict writes.  *)
(* An absent "grid" or "visited" key is the flag has_grid / has_visited    *)
(* being FALSE.                                                            *)

\* Mutant of to_dict: the visited flags are left out of the save.
ToDictWithoutVisited(d) ==
    [has_grid |-> TRUE, grid |-> d.grid, player |-> d.player,
     has_visited |-> FALSE, visited |-> <<>>,
     items |-> d.items, monsters |-> d.monsters]

to_dict(d) ==
    [has_grid |-> TRUE, grid |-> d.grid, player |-> d.player,
     has_visited |-> TRUE, visited |-> d.visited,
     items |-> d.items, monsters |-> d.monsters]

\* Mutant of FreshVisited: the new flags have the size of the old ones.
FreshVisitedOldSize(d) ==
    [yy \in 1..Len(d.visited) |-> [xx \in 1..Len(d.visited[1]) |-> FALSE]]

\* Lines 159-161 and 163-165: all-false flags of the grid's dimensions.
FreshVisited(d) ==
    [yy \in 1..Len(d.grid) |-> [xx \in 1..Len(d.grid[1]) |-> FALSE]]

load_dict(d, data) ==
    LET d1 == IF data.has_grid THEN [d EXCEPT !.grid = data.grid] ELSE d
        d2 == [d1 EXCEPT !.player =
                  [x |-> data.player.x, y |-> data.player.y,
                   facing |-> data.player.facing, hp |-> data.player.hp,
                   gold |-> data.player.gold,
                   base_atk |-> data.player.base_atk,
                   weapon |-> data.player.weapon,
                   weapon_atk |-> data.player.weapon_atk]]
        fresh == FreshVisited(d2)
        v == data.visited
        d3 == IF data.has_visited /\ Len(v) > 0
              THEN IF /\ Len(v) = Len(d2.grid)
                      /\ \A r \in 1..Len(v) : Len(v[r]) = Len(d2.grid[1])
                   THEN [d2 EXCEPT !.visited = v]
                   ELSE [d2 EXCEPT !.visited = fresh]
              ELSE [d2 EXCEPT !.visited = fresh]
        d4 == _mark_visited(d3, d3.player.x, d3.player.y)
    IN  [d4 EXCEPT
            !.items = [i \in 1..Len(data.items) |->
                          Item(data.items[i].x, data.items[i].y,
                               data.items[i].kind, data.items[i].amount,
                               data.items[i].name, data.items[i].atk)],
            !.monsters = [i \in 1..Len(data.monsters) |->
                             Monster(data.monsters[i].x, data.monsters[i].y,
                                     data.monsters[i].name,
                                     data.monsters[i].hp,
                                     data.monsters[i].atk)]]

\* Save files the view's load command may read for the world d: the world's
\* own save, and saves written by hand, whose entities load_dict places
\* without looking at the grid: a monster inside the wall north of the
\* player, with an item under it; and a fight in which neither side can
\* hurt the other (a negative base attack, a monster of attack 0).
Saves(d) ==
    LET own == to_dict(d)
        px == d.player.x
        py == d.player.y
    IN  { own,
          [own EXCEPT
              !.player.facing = 0,
              !.monsters = << Monster(px, py - 1, "Bat", 2, 1),
                              Monster(px + 1, py, "Rat", 3, 2) >>,
              !.items = << Item(px, py - 1, "gold", 7, NoneVal, 0),
                           Item(px + 2, py, "weapon", 0, "Axe", 3) >>],
          [own EXCEPT
              !.player.base_atk = -1,
              !.has_visited = FALSE,
              !.monsters = << Monster(px + 1, py, "Goblin", 3, 0) >>,
              !.items = << Item(px + 2, py, "gold", 5, NoneVal, 0) >>] }

\* A Dungeon is constructed and a save is loaded into it before play.
InitLoaded ==
    \E g \in Grids, sh \in 0..(NumShuffles - 1), st \in 0..(NumStreams - 1) :
        LET d0 == DungeonInit(g, sh, st)
        IN  \E data \in Saves(d0) :
                LET d == load_dict(d0, data)
                IN  /\ grid = d.grid
                    /\ player = d.player
                    /\ visited = d.visited
                    /\ items = d.items
                    /\ monsters = d.monsters
                    /\ messages = d.messages
                    /\ last = [op |-> "load_dict", nx |-> d.player.x,
                               ny |-> d.player.y, ret |-> <<>>, pre |-> d0]
                    /\ occupied = {<<d.player.x, d.player.y>>}
                    /\ gen = NoGen
                    /\ game = NoGame
                    /\ view = NoView

SpecLoaded == InitLoaded /\ [][Next]_vars

----------------------------------------------------------------------------
(* Persistence, for any save data.  A raw save is a save of the shape      *)
(* above, base, together with what is wrong with it: bad_player says that  *)
(* "player" is not a dict or has a field int() does not accept, missing    *)
(* names the keys "player" lacks, and bad_items and bad_monsters number    *)
(* the entries whose fields int() does not accept.                         *)

PlayerKeys ==
    {"x", "y", "facing", "hp", "gold", "base_atk", "weapon", "weapon_atk"}

\* Lines 142-151 for a player dict that converts: a missing key is the
\* current value.
PlayerFrom(cur, p, missing) ==
    LET v(k) == IF k \in missing THEN cur[k] ELSE p[k]
    IN  [x |-> v("x"), y |-> v("y"), facing |-> v("facing"), hp |-> v("hp"),
         gold |-> v("gold"), base_atk |-> v("base_atk"),
         weapon |-> v("weapon"), weapon_atk |-> v("weapon_atk")]

\* The entries of s whose numbers are not in bad, in order.
Keep(s, bad) ==
    LET F[i \in 0..Len(s)] ==
            IF i = 0 THEN <<>>
            ELSE IF i \in bad THEN F[i - 1] ELSE Append(F[i - 1], s[i])
    IN  F[Len(s)]

\* load_dict for a raw save: the world it leaves and whether it raised.
\* Line 141 has assigned the grid when lines 142-151 raise; the entries of
\* "items" and "monsters" that raise are skipped (lines 184, 199).
LoadOutcome(d, raw) ==
    IF raw.bad_player
    THEN [d |-> IF raw.base.has_grid THEN [d EXCEPT !.grid = raw.base.grid]
                ELSE d,
          raised |-> TRUE]
    ELSE [d |-> load_dict(d, [raw.base EXCEPT
                                 !.player = PlayerFrom(d.player, @,
                                                       raw.missing),
                                 !.items = Keep(@, raw.bad_items),
                                 !.monsters = Keep(@, raw.bad_monsters)]),
          raised |-> FALSE]

WellFormed(data) ==
    [base |-> data, bad_player |-> FALSE, missing |-> {}, bad_items |-> {},
     bad_monsters |-> {}]

\* A grid of other dimensions than those of Grids.
OtherGrid == generate_long_corridor(0, 0)

\* Save files the load command may find for the world d: its own save and
\* saves written or damaged by hand.
RawSaves(d) ==
    LET own == to_dict(d)
        other == [own EXCEPT !.grid = OtherGrid,
                             !.player.x = 3, !.player.y = 2,
                             !.items = <<>>, !.monsters = <<>>]
    IN  { WellFormed(own),
          \* another grid, and a player that does not convert
          [WellFormed(other) EXCEPT !.bad_player = TRUE],
          \* no grid, and a player that does not convert
          [WellFormed([own EXCEPT !.has_grid = FALSE]) EXCEPT
              !.bad_player = TRUE],
          \* a player with keys missing
          [WellFormed([own EXCEPT !.player.x = 3, !.player.hp = 4,
                                  !.player.gold = 50, !.player.facing = 2])
              EXCEPT !.missing = {"x", "gold", "weapon"}],
          \* another grid with the visited flags of this one
          WellFormed(other),
          \* the visited flags with a row cut short
          WellFormed([own EXCEPT
                         !.visited[2] = SubSeq(@, 1, Len(@) - 1)]),
          \* no visited flags at all
          WellFormed([own EXCEPT !.has_visited = FALSE]),
          \* another grid, its flags from this one, the player on a wall
          WellFormed([other EXCEPT !.player.x = 0, !.player.y = 0]),
          \* entries of items and monsters that do not convert
          [WellFormed(own) EXCEPT !.bad_items = {1, 3},
                                  !.bad_monsters = {1}] }

\* _handle_load before the first command: the file is read, load_dict is
\* called and an exception ends in the toast "Load failed".
HandleLoad ==
    /\ last.op = "init"
    /\ \E raw \in RawSaves(World) :
           LET o == LoadOutcome(World, raw)
           IN  Becomes(o.d, "load_from_file", <<o.d.player.x, o.d.player.y>>,
                       <<[raised |-> o.raised, data |-> raw]>>)

NextLoad == Next \/ HandleLoad

SpecLoad == InitQuery /\ [][NextLoad]_vars

\* to_dict() of the dungeon is loaded with load_dict, into the dungeon
\* itself or into another Dungeon, which then is the world; the history
\* keeps the world that was saved.
RoundTrip ==
    \/ Becomes(load_dict(World, to_dict(World)), "round_trip",
               <<player.x, player.y>>, <<"same">>)
    \/ \E g \in Grids :
           Becomes(load_dict(DungeonInit(g, 0, 0), to_dict(World)),
                   "round_trip", <<player.x, player.y>>, <<"other">>)

NextRoundTrip == Next \/ RoundTrip

SpecRoundTrip == Init /\ [][NextRoundTrip]_vars

----------------------------------------------------------------------------
(* The view's frame loop, EOBViewPG.run: a frame handles the queued        *)
(* events, applies the held-key repeats, drains the dungeon's messages and *)
(* renders.  Times are in milliseconds, the unit of clock.get_time().      *)

\* At most MaxEvents events are queued when a frame starts, and MaxFrames
\* frames are run.
MaxEvents == 2
MaxFrames == 2

\* The time the last frame took: a frame at 60 frames per second, or one
\* that lagged.
FrameMs == 17
LagMs == 450
Dts == {FrameMs, LagMs}

_hold_repeat_delay_move == 220
_hold_repeat_rate_move == 110
_hold_repeat_delay_turn == 220
_hold_repeat_rate_turn == 120

menu_items == <<"Resume", "Save", "Load", "Quit">>

\* The keys of a KEYDOWN event, its aliases left out: "l" toggles
\* auto_layers, which no code reads; "QUIT" is the event pygame.QUIT.
Keys == {"ESCAPE", "UP", "DOWN", "LEFT", "RIGHT", "RETURN", "m", "l", "q",
         "QUIT"}

HoldActions == <<"forward", "back", "turn_left", "turn_right">>

\* pygame.key.get_pressed(): no movement key is down, or one is.
Pressed == {{}} \cup { {HoldActions[i]} : i \in 1..4 }

Released == [was_down |-> FALSE, acc |-> 0]

\* Nothing has been rendered yet.
NoShow ==
    [map |-> FALSE, nearest_front |-> <<>>, layers |-> 0, ops |-> <<>>]

\* EOBViewPG.__init__, and the frame loop about to start.  cmds, keycmds
\* and due are history: the movement commands applied since the last
\* render, how many of the frame's events were movement keys handled with
\* the menu closed, and how many repeats the held keys had come to.
InitView ==
    [pc |-> "events", running |-> TRUE, frames |-> 0, nev |-> 0,
     menu_open |-> FALSE, menu_index |-> 0, map_open |-> FALSE,
     hold |-> [a \in {"forward", "back", "turn_left", "turn_right"} |->
                  Released],
     save |-> <<>>, cmds |-> <<>>, keycmds |-> 0, due |-> 0,
     shown |-> NoShow]

\* The command the dungeon method named op makes, and its candidate cell.
Do(d, op) ==
    CASE op = "turn_left" -> turn_left(d)
      [] op = "turn_right" -> turn_right(d)
      [] op = "step_forward" -> step_forward(d)
      [] op = "step_back" -> step_back(d)

CandOf(d, op) ==
    CASE op = "step_forward" -> ForwardCell(d)
      [] op = "step_back" -> BackCell(d)
      [] OTHER -> <<0, 0>>

\* The worlds the commands ops lead through from d, d first.
RECURSIVE Trail(_, _)
Trail(d, ops) ==
    IF ops = <<>> THEN <<d>>
    ELSE <<d>> \o Trail(Do(d, Head(ops)), Tail(ops))

\* The commands ops, at least one, are applied in order: the world is the
\* last of their trail, the history records the last of them.
AppliesAll(ops) ==
    LET t == Trail(World, ops)
        n == Len(ops)
        pre == t[n]
        d == t[n + 1]
    IN  /\ \A i \in 1..(n + 1) : Len(t[i].messages) <= MaxMsgs
        /\ grid' = d.grid
        /\ player' = d.player
        /\ visited' = d.visited
        /\ items' = d.items
        /\ monsters' = d.monsters
        /\ messages' = d.messages
        /\ last' = [op |-> ops[n], nx |-> CandOf(pre, ops[n])[1],
                    ny |-> CandOf(pre, ops[n])[2], ret |-> <<>>, pre |-> pre]
        /\ occupied' = occupied \cup
                           { <<t[i].player.x, t[i].player.y>> :
                                 i \in 1..(n + 1) }
        /\ gen' = gen
        /\ game' = game

UnchangedWorld ==
    UNCHANGED <<grid, player, visited, items, monsters, messages, last,
                occupied, gen, game>>

\* Lines 159-194 for an event that makes no call on the dungeon: the
\* view's fields after the event.
OnKey(v, key) ==
    IF key = "QUIT" THEN [v EXCEPT !.running = FALSE]
    ELSE IF key = "ESCAPE" THEN [v EXCEPT !.menu_open = ~@]
    ELSE IF v.menu_open
    THEN CASE key = "UP" ->
                  [v EXCEPT !.menu_index = (@ - 1) % Len(menu_items)]
           [] key = "DOWN" ->
                  [v EXCEPT !.menu_index = (@ + 1) % Len(menu_items)]
           [] key = "RETURN" ->
                  LET choice == menu_items[v.menu_index + 1]
                  IN  CASE choice = "Resume" -> [v EXCEPT !.menu_open = FALSE]
                        [] choice = "Save" -> [v EXCEPT !.save = <<to_dict(World)>>]
                        [] choice = "Quit" -> [v EXCEPT !.running = FALSE]
                        [] OTHER -> v
           [] OTHER -> v
    ELSE CASE key = "m" -> [v EXCEPT !.map_open = ~@]
           [] key = "q" -> [v EXCEPT !.running = FALSE]
           [] OTHER -> v

\* Lines 181-188: the dungeon method a movement key calls.
MoveOf(key) ==
    CASE key = "LEFT" -> "turn_left"
      [] key = "RIGHT" -> "turn_right"
      [] key = "UP" -> "step_forward"
      [] key = "DOWN" -> "step_back"

\* One event of the queue is handled: a movement key with the menu closed
\* calls the dungeon, "Load" in the menu loads the saved file if there is
\* one, anything else changes the view only.
KeyDown ==
    /\ view.pc = "events"
    /\ view.frames < MaxFrames
    /\ view.nev < MaxEvents
    /\ \E key \in Keys :
           LET v == [view EXCEPT !.nev = @ + 1]
           IN  IF ~view.menu_open /\ key \in {"LEFT", "RIGHT", "UP", "DOWN"}
               THEN /\ AppliesAll(<<MoveOf(key)>>)
                    /\ view' = [v EXCEPT !.cmds = Append(@, MoveOf(key)),
                                         !.keycmds = @ + 1]
               ELSE IF /\ view.menu_open
                       /\ key = "RETURN"
                       /\ menu_items[view.menu_index + 1] = "Load"
                       /\ view.save # <<>>
               THEN LET d == load_dict(World, view.save[1])
                    IN  /\ Applies(d, "load_from_file",
                                   <<d.player.x, d.player.y>>,
                                   <<[raised |-> FALSE,
                                      data |-> WellFormed(view.save[1])]>>)
                        /\ view' = v
               ELSE /\ UnchangedWorld
                    /\ view' = OnKey(v, key)

\* Mutant of HoldLoop: a held key repeats at most once in a frame.
HoldLoopOnce(acc, rate) ==
    IF acc >= rate THEN [acc |-> acc - rate, n |-> 1]
    ELSE [acc |-> acc, n |-> 0]

\* Lines 916-918, while st["acc"] >= rate: the accumulator the loop leaves
\* and the number of times it called do_step.
RECURSIVE HoldLoop(_, _)
HoldLoop(acc, rate) ==
    IF acc >= rate
    THEN LET r == HoldLoop(acc - rate, rate)
         IN  [acc |-> r.acc, n |-> r.n + 1]
    ELSE [acc |-> acc, n |-> 0]

\* _process_hold's update for one action: its state afterwards and the
\* number of steps made.
update(st, down, dt, delay, rate) ==
    IF down
    THEN LET acc == IF ~st.was_down THEN 0 - delay ELSE st.acc + dt
             r == HoldLoop(acc, rate)
         IN  [st |-> [was_down |-> TRUE, acc |-> r.acc], n |-> r.n]
    ELSE [st |-> Released, n |-> 0]

HoldDelay(a) ==
    IF a \in {"forward", "back"} THEN _hold_repeat_delay_move
    ELSE _hold_repeat_delay_turn

HoldRate(a) ==
    IF a \in {"forward", "back"} THEN _hold_repeat_rate_move
    ELSE _hold_repeat_rate_turn

\* n times the command op.
Times(op, n) == [i \in 1..n |-> op]

\* The whole repeat periods a key held since before this frame has
\* accumulated after dt more milliseconds.
Due(st, down, dt, rate) ==
    IF down /\ st.was_down /\ st.acc + dt >= 0 THEN (st.acc + dt) \div rate
    ELSE 0

\* _process_hold(dt) with the keys down: nothing repeats while the menu or
\* the map is open; otherwise forward, back, turn_left and turn_right are
\* updated in this order.  The first frame's dt is 0.
ProcessHold ==
    /\ view.pc = "events"
    /\ view.frames < MaxFrames
    /\ \E dt \in (IF view.frames = 0 THEN {0} ELSE Dts), keys \in Pressed :
           IF view.menu_open \/ view.map_open
           THEN /\ UnchangedWorld
                /\ view' = [view EXCEPT
                               !.pc = "drain",
                               !.hold = [a \in DOMAIN @ |-> Released]]
           ELSE LET u(a) == update(view.hold[a], a \in keys, dt,
                                   HoldDelay(a), HoldRate(a))
                    ops == Times("step_forward", u("forward").n)
                           \o Times("step_back", u("back").n)
                           \o Times("turn_left", u("turn_left").n)
                           \o Times("turn_right", u("turn_right").n)
                    due == Due(view.hold["forward"], "forward" \in keys, dt,
                               HoldRate("forward"))
                           + Due(view.hold["back"], "back" \in keys, dt,
                                 HoldRate("back"))
                           + Due(view.hold["turn_left"], "turn_left" \in keys,
                                 dt, HoldRate("turn_left"))
                           + Due(view.hold["turn_right"],
                                 "turn_right" \in keys, dt,
                                 HoldRate("turn_right"))
                IN  /\ IF ops = <<>> THEN UnchangedWorld ELSE AppliesAll(ops)
                    /\ view' = [view EXCEPT
                                   !.pc = "drain",
                                   !.hold = [a \in DOMAIN @ |-> u(a).st],
                                   !.cmds = @ \o ops,
                                   !.due = due]

\* Lines 236-238: the queue is drained into the toast.
FrameDrain ==
    /\ view.pc = "drain"
    /\ Applies(drain_messages(World).d, "drain_messages", <<0, 0>>,
               drain_messages(World).ret)
    /\ view' = [view EXCEPT !.pc = "draw"]

----------------------------------------------------------------------------
(* The first-person render, _draw.  A render is the list of what it drew:  *)
(* the layers it went through with their side walls and front walls, the   *)
(* far cap, the monsters' sprites and the fog rings, each with its         *)
(* depth, its brightness (a fraction <<numerator, denominator>>) and its   *)
(* alpha.  fog_enabled, cap_far and use_vanishing are always True.  An     *)
(* optional value is <<>> for None and <<v>> for the value v.              *)

view_width == 800
view_height == 600
vp_depth_x == 3
max_probe == 256
fog_layers == 8
fog_min_start == 6
\* fog_far = 0.50, fog_alpha_far = 0.30, fog_overlay_alpha_far = 0.60
fog_far == <<1, 2>>
fog_alpha_far == <<3, 10>>
fog_overlay_alpha_far == <<3, 5>>
\* The last entries of margins_x and margins_y, as __init__ sets them: no
\* tuning file is read and the tuning mode is left off.
far_mx == 320
far_my == 260

One == <<1, 1>>

\* int(255 * a) for the fraction a
Alpha(a) == (255 * a[1]) \div a[2]

\* 1 - t * (1 - far) for fractions t and far
Fade(t, far) == <<t[2] * far[2] - t[1] * (far[2] - far[1]), t[2] * far[2]>>

\* _mx(d) and _my(d) in vanishing-point mode: int(half * d / (d + k)), and
\* int(min(H // 2 - 1, r * mx)) with r = min((H // 2 - 1) / far_mx,
\* far_my / far_mx).
\* A mirror image of _mx that recedes with depth (t = k / (d + k)).
MxReceding(d) == ((view_width \div 2 - 1) * vp_depth_x) \div (d + vp_depth_x)

_mx(d) == ((view_width \div 2 - 1) * d) \div (d + vp_depth_x)

\* _my(d) for the far anchors mx_far = margins_x[-1], my_far = margins_y[-1]
MyAt(d, mx_far, my_far) ==
    Min(view_height \div 2 - 1,
         (Min(view_height \div 2 - 1, Max(1, my_far)) * _mx(d))
             \div Max(1, mx_far))

_my(d) == MyAt(d, far_mx, far_my)

\* _front_rect(d) for the far anchors mx_far, my_far
FrontRectAt(d, mx_far, my_far) ==
    <<_mx(d), MyAt(d, mx_far, my_far),
      view_width - _mx(d), view_height - MyAt(d, mx_far, my_far)>>

_front_rect(d) == FrontRectAt(d, far_mx, far_my)

\* _geom_depth_limit(): the last depth from 1 on whose rectangle is more
\* than 2 pixels wide and high, 1 at least.
max_d == 256

RECURSIVE GeomLoop(_, _)
GeomLoop(d, last_d) ==
    IF d > max_d THEN last_d
    ELSE LET r == _front_rect(d)
         IN  IF r[3] - r[1] <= 2 \/ r[4] - r[2] <= 2 THEN last_d
             ELSE GeomLoop(d + 1, d)

_geom_depth_limit == GeomLoop(1, 1)

\* Mutant of Probe: the cell the player stands on is probed first.
RECURSIVE ProbeFromHere(_, _, _)
ProbeFromHere(d, lo, hi) ==
    IF lo >= hi THEN <<>>
    ELSE IF hi = lo + 1
    THEN LET c == transform_local(d, lo, 0)
         IN  IF is_wall(d, c[1], c[2]) THEN <<lo>> ELSE <<>>
    ELSE LET mid == (lo + hi) \div 2
             near == ProbeFromHere(d, lo, mid)
         IN  IF near # <<>> THEN near ELSE ProbeFromHere(d, mid, hi)

\* Lines 298-305, for k in range(max_probe) with its break: the first k of
\* lo..hi-1, in ascending order, whose cell k + 1 ahead is a wall.  The
\* range is halved so that the evaluation does not nest max_probe deep.
RECURSIVE Probe(_, _, _)
Probe(d, lo, hi) ==
    IF lo >= hi THEN <<>>
    ELSE IF hi = lo + 1
    THEN LET c == transform_local(d, lo + 1, 0)
         IN  IF is_wall(d, c[1], c[2]) THEN <<lo>> ELSE <<>>
    ELSE LET mid == (lo + hi) \div 2
             near == Probe(d, lo, mid)
         IN  IF near # <<>> THEN near ELSE Probe(d, mid, hi)

\* _fog_params(d, layers): brightness and opacity.
_fog_params(d, layers) ==
    IF layers <= 1 THEN <<One, One>>
    ELSE LET start == Max(fog_min_start, layers - fog_layers)
             span == Max(1, fog_layers - 1)
             t == <<Min(span, d - start), span>>
         IN  IF d <= start THEN <<One, One>>
             ELSE <<Fade(t, fog_far), Fade(t, fog_alpha_far)>>

\* Lines 519-526 of _side_wall: a side face at or before the nearest
\* blocking front is not fogged.
SideFog(d, layers, nearest) ==
    IF nearest # <<>> /\ d <= nearest[1] THEN <<One, One>>
    ELSE _fog_params(d, layers)

\* Mutant of FrontFog: the front wall is fogged by its depth.
FrontFogByDepth(d, layers, nearest) == _fog_params(d, layers)

\* Lines 342-349: the nearest blocking front wall is never fogged.
FrontFog(d, layers, nearest) ==
    IF nearest # <<>> /\ d = nearest[1] THEN <<One, One>>
    ELSE _fog_params(d, layers)

Paint(what, d, fog) ==
    [what |-> what, d |-> d, b |-> fog[1], alpha |-> Alpha(fog[2])]

\* Mutant of SideOk: side walls are drawn at the last layer too.
SideOkEveryLayer(d, dyn_layers) == d < dyn_layers

\* Line 323: side walls are drawn up to the layer before the front.
SideOk(d, dyn_layers) == d < dyn_layers - 1

\* Line 336: the front wall is drawn at the nearest blocking depth only.
FrontDrawn(front_is_wall, d, nearest) ==
    front_is_wall /\ (nearest = <<>> \/ d = nearest[1])

\* Lines 316-354: what the iteration for the layer d draws, in order, after
\* an entry "layer" for the iteration itself.
Layer(w, d, dyn_layers, nearest) ==
    LET f == transform_local(w, d + 1, 0)
        l == transform_local(w, d + 1, -1)
        r == transform_local(w, d + 1, 1)
        front_is_wall == is_wall(w, f[1], f[2])
        side == SideFog(d, dyn_layers, nearest)
    IN  <<[what |-> "layer", d |-> d, b |-> One, alpha |-> 0]>>
        \o (IF SideOk(d, dyn_layers) /\ is_wall(w, l[1], l[2])
            THEN <<Paint("left", d, side)>> ELSE <<>>)
        \o (IF SideOk(d, dyn_layers) /\ is_wall(w, r[1], r[2])
            THEN <<Paint("right", d, side)>> ELSE <<>>)
        \o (IF FrontDrawn(front_is_wall, d, nearest)
            THEN <<Paint("front", d, FrontFog(d, dyn_layers, nearest))>>
            ELSE <<>>)

\* Mutant of Layers: the layers are visited from the nearest to the
\* farthest.
RECURSIVE LayersNearFirst(_, _, _, _)
LayersNearFirst(w, d, dyn_layers, nearest) ==
    IF d < 0 THEN <<>>
    ELSE LayersNearFirst(w, d - 1, dyn_layers, nearest)
         \o Layer(w, d, dyn_layers, nearest)

\* Line 316, for d in reversed(range(dyn_layers)): the layers from d down.
RECURSIVE Layers(_, _, _, _)
Layers(w, d, dyn_layers, nearest) ==
    IF d < 0 THEN <<>>
    ELSE Layer(w, d, dyn_layers, nearest)
         \o Layers(w, d - 1, dyn_layers, nearest)

\* Lines 356-367: the far cap when no wall is in sight.
FarCap(dyn_layers, nearest) ==
    IF nearest = <<>>
    THEN <<Paint("cap", dyn_layers - 1, <<fog_far, fog_alpha_far>>)>>
    ELSE <<>>

\* _draw_fog_overlays(layers): the rings from depth d on.
RECURSIVE Rings(_, _, _)
Rings(d, layers, start) ==
    IF d >= layers THEN <<>>
    ELSE LET span == Max(1, fog_layers - 1)
             n == Min(span, Max(0, d - start))
             a == (255 * n * fog_overlay_alpha_far[1])
                      \div (span * fog_overlay_alpha_far[2])
         IN  (IF a <= 0 THEN <<>>
              ELSE <<[what |-> "fog", d |-> d, b |-> <<0, 1>>, alpha |-> a]>>)
             \o Rings(d + 1, layers, start)

_draw_fog_overlays(layers, nearest) ==
    IF layers <= 1 THEN <<>>
    ELSE LET start == Max(fog_min_start, layers - fog_layers)
             near == IF nearest # <<>> THEN nearest[1] ELSE -1
         IN  Rings(Max(start, near + 1), layers, start)

\* Mutant of MonsterFog: the sprites are drawn unfogged.
MonsterFogNone(d, layers) == <<One, One>>

\* Lines 805-809 of _draw_monsters: a sprite has the fog of its depth.
MonsterFog(d, layers) == _fog_params(d, layers)

\* Lines 792-814: the sprite drawn for the cell d + 1 ahead and r_off to
\* the side, that of the first monster on it, if the cell is no wall.
Sprite(w, d, r_off, layers) ==
    LET c == transform_local(w, d + 1, r_off)
        mon == _monster_at(w, c[1], c[2])
    IN  IF is_wall(w, c[1], c[2]) \/ mon = 0 THEN <<>>
        ELSE <<[what |-> "monster", d |-> d,
                b |-> MonsterFog(d, layers)[1],
                alpha |-> Alpha(MonsterFog(d, layers)[2]),
                r |-> r_off, name |-> w.monsters[mon].name]>>

\* _draw_monsters(layers): the sprites of the depths from d down, those at
\* or beyond the nearest front wall skipped.
RECURSIVE Sprites(_, _, _, _)
Sprites(w, d, layers, nearest) ==
    IF d < 0 THEN <<>>
    ELSE (IF nearest # <<>> /\ d >= nearest[1] THEN <<>>
          ELSE Sprite(w, d, -1, layers) \o Sprite(w, d, 0, layers)
               \o Sprite(w, d, 1, layers))
         \o Sprites(w, d - 1, layers, nearest)

_draw_monsters(w, layers, nearest) ==
    IF w.monsters = <<>> THEN <<>>
    ELSE Sprites(w, layers - 1, layers, nearest)

\* What _draw shows of the world w: the map, or the first-person view with
\* the probe's result, the number of layers and the list of what was drawn.
Show(w, map_open) ==
    IF map_open THEN [NoShow EXCEPT !.map = TRUE]
    ELSE LET nearest == Probe(w, 0, max_probe)
             dyn_layers == IF nearest # <<>> THEN nearest[1] + 1
                           ELSE _geom_depth_limit
         IN  [map |-> FALSE, nearest_front |-> nearest,
              layers |-> dyn_layers,
              ops |-> Layers(w, dyn_layers - 1, dyn_layers, nearest)
                      \o FarCap(dyn_layers, nearest)
                      \o _draw_monsters(w, dyn_layers, nearest)
                      \o _draw_fog_overlays(dyn_layers, nearest)]

\* _draw(): the world is read and nothing of it is changed; the loop goes
\* on to the next frame unless an event has ended it.
Draw ==
    /\ view.pc = "draw"
    /\ UnchangedWorld
    /\ view' = [view EXCEPT
                   !.pc = IF view.running THEN "events" ELSE "exit",
                   !.frames = @ + 1, !.nev = 0, !.cmds = <<>>,
                   !.keycmds = 0, !.due = 0,
                   !.shown = Show(World, view.map_open)]

\* The grids the view is started on: those of Grids, and a test corridor
\* longer than the probe reaches.
FrameGrids == Grids \cup {generate_long_corridor(301, 9)}

InitFrame ==
    /\ \E g \in FrameGrids :
        LET d == DungeonInit(g, 0, 0)
        IN  /\ grid = d.grid
            /\ player = d.player
            /\ visited = d.visited
            /\ items = d.items
            /\ monsters = d.monsters
            /\ messages = d.messages
            /\ last = [op |-> "init", nx |-> d.player.x, ny |-> d.player.y,
                       ret |-> <<>>, pre |-> d]
            /\ occupied = {<<d.player.x, d.player.y>>}
            /\ gen = NoGen
            /\ game = NoGame
    /\ view = InitView

NextFrame == KeyDown \/ ProcessHold \/ FrameDrain \/ Draw

SpecFrame == InitFrame /\ [][NextFrame]_vars

\* ---------------------------------------------------------------------
\* The margins of the front rectangles, as functions of the depth.  The far
\* anchors margins_x[-1] and margins_y[-1] come from __init__ or from the
\* tuning file, and _clamp_anchors keeps them in 0 .. width // 2 - 2 and
\* 0 .. height // 2 - 2.  The view holds the depth, the anchors, the
\* rectangle of the depth and the rectangle of the depth before it.
MaxDepth == 256

Tunings ==
    {<<far_mx, far_my>>, <<0, 0>>, <<160, view_height \div 2 - 2>>,
     <<view_width \div 2 - 2, view_height \div 2 - 2>>,
     <<view_width \div 2 - 2, 1>>, <<3, view_height \div 2 - 2>>}

Margins(d, t, before) ==
    [pc |-> "margins", d |-> d, anchors |-> t,
     rect |-> FrontRectAt(d, t[1], t[2]), before |-> before]

InitMargins ==
    /\ grid = <<>>
    /\ player = PlayerState(0, 0, 0)
    /\ visited = <<>>
    /\ items = <<>>
    /\ monsters = <<>>
    /\ messages = <<>>
    /\ last = [op |-> "none", nx |-> 0, ny |-> 0, ret |-> <<>>, pre |-> <<>>]
    /\ occupied = {}
    /\ gen = NoGen
    /\ game = NoGame
    /\ \E t \in Tunings :
           view = Margins(0, t, FrontRectAt(0, t[1], t[2]))

NextDepth ==
    /\ view.pc = "margins"
    /\ view.d < MaxDepth
    /\ view' = Margins(view.d + 1, view.anchors, view.rect)
    /\ UNCHANGED <<grid, player, visited, items, monsters, messages, last,
                   occupied, gen, game>>

SpecMargins == InitMargins /\ [][NextDepth]_vars

----------------------------------------------------------------------------
(* generate_maze, one action per step of its carving loop.  gen holds the  *)
(* arguments width and height and the locals w, h, grid and stack; the     *)
(* outcomes of the seeded rng are choices of the actions.                  *)

Sizes == (-1)..MaxSize

\* Mutant of Normalise: an even size is rounded up.
NormaliseUp(n) == Max(5, n + ((n + 1) % 2))

\* Lines 394-395: the dimensions made odd and at least 5.
Normalise(n) == Max(5, n - ((n + 1) % 2))

carve(g, x, y) == [g EXCEPT ![y + 1][x + 1] = 0]

dirs == << <<0, -2>>, <<0, 2>>, <<-2, 0>>, <<2, 0>> >>

\* The orders rng.shuffle can leave dirs in.
Shuffles ==
    { o \in [1..4 -> 1..4] : \A i, j \in 1..4 : o[i] = o[j] => i = j }

Top(m) == m.stack[Len(m.stack)]

\* Mutant of CanCarve: the wall between the cells is tested, not the target.
CanCarveUnopened(m, dir) ==
    LET nx == Top(m)[1] + dir[1]
        ny == Top(m)[2] + dir[2]
        bx == Top(m)[1] + dir[1] \div 2
        by == Top(m)[2] + dir[2] \div 2
    IN  /\ 1 <= nx /\ nx < m.w - 1
        /\ 1 <= ny /\ ny < m.h - 1
        /\ m.grid[by + 1][bx + 1] = 1

\* Line 421: the neighbour two cells away in direction dir is inside the
\* ring and still a wall.
CanCarve(m, dir) ==
    LET nx == Top(m)[1] + dir[1]
        ny == Top(m)[2] + dir[2]
    IN  /\ 1 <= nx /\ nx < m.w - 1
        /\ 1 <= ny /\ ny < m.h - 1
        /\ m.grid[ny + 1][nx + 1] = 1

\* Mutant of CarveTo: the wall between the two cells is left standing.
CarveToWithoutPassage(m, dir) ==
    LET x == Top(m)[1]
        y == Top(m)[2]
    IN  [m EXCEPT !.grid = carve(@, x + dir[1], y + dir[2]),
                  !.stack = Append(@, <<x + dir[1], y + dir[2]>>)]

\* Lines 423-425: the passage and the neighbour are carved, the neighbour is
\* pushed.
CarveTo(m, dir) ==
    LET x == Top(m)[1]
        y == Top(m)[2]
    IN  [m EXCEPT !.grid = carve(carve(@, x + dir[1] \div 2,
                                       y + dir[2] \div 2),
                                 x + dir[1], y + dir[2]),
                  !.stack = Append(@, <<x + dir[1], y + dir[2]>>)]

\* Mutant of Iterate: a cell with nothing left to carve stays on the stack.
IterateWithoutPop(m, order) ==
    LET ok == { i \in 1..4 : CanCarve(m, dirs[order[i]]) }
    IN  IF ok = {}
        THEN m
        ELSE CarveTo(m, dirs[order[CHOOSE i \in ok : \A j \in ok : i <= j]])

\* Lines 413-429: one iteration of the while loop, dirs shuffled to order.
Iterate(m, order) ==
    LET ok == { i \in 1..4 : CanCarve(m, dirs[order[i]]) }
    IN  IF ok = {}
        THEN [m EXCEPT !.stack = SubSeq(@, 1, Len(@) - 1)]
        ELSE CarveTo(m, dirs[order[CHOOSE i \in ok : \A j \in ok : i <= j]])

\* Mutant of PostProcess: the border loops write the floor tile.
PostProcessOpenRing(m) ==
    [y \in 1..m.h |->
        [x \in 1..m.w |->
            IF y = 1 \/ y = m.h \/ x = 1 \/ x = m.w THEN 0
            ELSE IF x = 2 /\ y = 2 THEN 0
            ELSE m.grid[y][x]]]

\* Lines 432-438: (1, 1) is carved and the outer ring walled.
PostProcess(m) ==
    [y \in 1..m.h |->
        [x \in 1..m.w |->
            IF y = 1 \/ y = m.h \/ x = 1 \/ x = m.w THEN 1
            ELSE IF x = 2 /\ y = 2 THEN 0
            ELSE m.grid[y][x]]]

\* No Dungeon exists while the maze is generated.
NoDungeon ==
    /\ grid = <<>>
    /\ player = PlayerState(0, 0, 0)
    /\ visited = <<>>
    /\ items = <<>>
    /\ monsters = <<>>
    /\ messages = <<>>
    /\ last = [op |-> "none", nx |-> 0, ny |-> 0, ret |-> <<>>, pre |-> <<>>]
    /\ occupied = {}
    /\ view = NoView
    /\ game = NoGame

\* generate_maze(width, height, seed) is entered: w, h and the grid of
\* walls.
InitMaze ==
    /\ NoDungeon
    /\ \E width \in Sizes, height \in Sizes :
           LET w == Normalise(width)
               h == Normalise(height)
           IN  gen = [pc |-> "start", width |-> width, height |-> height,
                      w |-> w, h |-> h,
                      grid |-> [y \in 1..h |-> [x \in 1..w |-> 1]],
                      stack |-> <<>>]

\* Lines 408-412: the start cell is drawn from the odd coordinates, carved
\* and pushed.
Start ==
    /\ gen.pc = "start"
    /\ \E sx \in { x \in 1..(gen.w - 1) : x % 2 = 1 },
          sy \in { y \in 1..(gen.h - 1) : y % 2 = 1 } :
           gen' = [gen EXCEPT !.grid = carve(@, sx, sy),
                              !.stack = <<<<sx, sy>>>>,
                              !.pc = "loop"]
    /\ UNCHANGED <<grid, player, visited, items, monsters, messages, last,
                   occupied, view, game>>

LoopIteration ==
    /\ gen.pc = "loop"
    /\ gen.stack # <<>>
    /\ \E order \in Shuffles : gen' = Iterate(gen, order)
    /\ UNCHANGED <<grid, player, visited, items, monsters, messages, last,
                   occupied, view, game>>

\* The stack is empty: the grid is post-processed and returned.
Return ==
    /\ gen.pc = "loop"
    /\ gen.stack = <<>>
    /\ gen' = [gen EXCEPT !.grid = PostProcess(gen), !.pc = "done"]
    /\ UNCHANGED <<grid, player, visited, items, monsters, messages, last,
                   occupied, view, game>>

NextMaze == Start \/ LoopIteration \/ Return

SpecMaze == InitMaze /\ [][NextMaze]_vars

\* generate_maze runs on its own and to its end: a step that can be taken
\* is taken.
SpecMazeFair == SpecMaze /\ WF_vars(NextMaze)

----------------------------------------------------------------------------
(* generate_maze called twice with the same arguments, its draws taken     *)
(* from random.Random(seed).  A seed is <<s>> for the integer s and <<>>   *)
(* for None.  The generator is the record [e, k]: the stream e it was      *)
(* seeded to and the number k of draws made; a stream is a fixed sequence  *)
(* of values.  Random(None) is seeded from the system's entropy.           *)

Seeds == {<<>>} \cup { <<s>> : s \in 0..(NumSeeds - 1) }

\* The streams random.Random(seed) can be seeded to.
Streams(seed) == IF seed = <<>> THEN 0..(NumSeeds - 1) ELSE {seed[1]}

\* The next draw below n of the generator r, and r after the draw.
_randbelow(r, n) == ((13 * r.e + 5) * (r.k + 1) + r.k \div 2) % n
Drawn(r) == [r EXCEPT !.k = @ + 1]

\* randrange(start, stop, step) for a positive step.
randrange(r, start, stop, step) ==
    start + step * _randbelow(r, (stop - start + step - 1) \div step)

Swap(x, i, j) == [x EXCEPT ![i] = x[j], ![j] = x[i]]

\* rng.shuffle(x) for a list of four: x[i] is exchanged with a drawn
\* x[j], j <= i, for i from the last index down to the second.
rng_shuffle(x, r) ==
    LET r1 == Drawn(r)
        r2 == Drawn(r1)
        x1 == Swap(x, 4, _randbelow(r, 4) + 1)
        x2 == Swap(x1, 3, _randbelow(r1, 3) + 1)
    IN  Swap(x2, 2, _randbelow(r2, 2) + 1)

\* Mutant of Enter: dirs is not a local of the call but keeps the order the
\* call before left it in.
EnterKeepingDirs(m, width, height, seed, e) ==
    LET w == Normalise(width)
        h == Normalise(height)
    IN  [pc |-> "start", width |-> width, height |-> height, seed |-> seed,
         rng |-> [e |-> e, k |-> 0], w |-> w, h |-> h,
         grid |-> [y \in 1..h |-> [x \in 1..w |-> 1]],
         stack |-> <<>>, order |-> m.order,
         prev |-> m.grid, calls |-> m.calls + 1]

\* Lines 391-405: a call is entered after the call that left m; the
\* generator is seeded to stream e, the grid is all walls and dirs, kept as
\* the order of its four entries, is in its written order.
Enter(m, width, height, seed, e) ==
    LET w == Normalise(width)
        h == Normalise(height)
    IN  [pc |-> "start", width |-> width, height |-> height, seed |-> seed,
         rng |-> [e |-> e, k |-> 0], w |-> w, h |-> h,
         grid |-> [y \in 1..h |-> [x \in 1..w |-> 1]],
         stack |-> <<>>, order |-> <<1, 2, 3, 4>>,
         prev |-> m.grid, calls |-> m.calls + 1]

\* Before the first call: nothing was returned yet.
NoCall == [grid |-> <<>>, calls |-> 0, order |-> <<1, 2, 3, 4>>]

InitSeeded ==
    /\ NoDungeon
    /\ \E width \in Sizes, height \in Sizes, seed \in Seeds :
           \E e \in Streams(seed) :
               gen = Enter(NoCall, width, height, seed, e)

\* Lines 408-412 with the seeded generator.
SeededStart ==
    /\ gen.pc = "start"
    /\ LET sx == randrange(gen.rng, 1, gen.w, 2)
           sy == randrange(Drawn(gen.rng), 1, gen.h, 2)
       IN  gen' = [gen EXCEPT !.grid = carve(@, sx, sy),
                              !.stack = <<<<sx, sy>>>>,
                              !.rng = Drawn(Drawn(@)),
                              !.pc = "loop"]
    /\ UNCHANGED <<grid, player, visited, items, monsters, messages, last,
                   occupied, view, game>>

\* Lines 413-429 with the seeded generator: dirs is shuffled in place.
SeededIteration ==
    /\ gen.pc = "loop"
    /\ gen.stack # <<>>
    /\ LET order == rng_shuffle(gen.order, gen.rng)
       IN  gen' = [Iterate(gen, order) EXCEPT
                       !.order = order,
                       !.rng = Drawn(Drawn(Drawn(@)))]
    /\ UNCHANGED <<grid, player, visited, items, monsters, messages, last,
                   occupied, view, game>>

\* The returned grid is in the caller's hands; the same call is made again.
CallAgain ==
    /\ gen.pc = "done"
    /\ gen.calls = 1
    /\ \E e \in Streams(gen.seed) :
           gen' = Enter(gen, gen.width, gen.height, gen.seed, e)
    /\ UNCHANGED <<grid, player, visited, items, monsters, messages, last,
                   occupied, view, game>>

NextSeeded == SeededStart \/ SeededIteration \/ Return \/ CallAgain

SpecSeeded == InitSeeded /\ [][NextSeeded]_vars

----------------------------------------------------------------------------
(* The text game, src/game/game.py: Game.run calls menu, explore or combat *)
(* for the state it is in until the state is quit.  The names of the       *)
(* player and of the monsters are only printed and are left out.  An       *)
(* optional value is <<>> for None and <<v>> for the value v.  What the     *)
(* user types and what random draws are choices of the actions.  A failed  *)
(* assert leaves run with an AssertionError: raised.                       *)

\* len(self.rooms)
NumRooms == 5

\* The hp spawn_monster draws with randint(6, 12): the two ends.
SpawnHps == {6, 12}

\* The monsters spawn_monster can return: hp as above, atk_min from
\* randint(1, 2), atk_max from randint(3, 5).
Spawns ==
    { [hp |-> h, max_hp |-> h, min_atk |-> a, max_atk |-> b] :
          h \in SpawnHps, a \in 1..2, b \in {3, 5} }

\* Player(name, hp=20, max_hp=20, min_atk=2, max_atk=6, potions=2)
NewPlayer ==
    [hp |-> 20, max_hp |-> 20, min_atk |-> 2, max_atk |-> 6, potions |-> 2]

\* Creature.is_alive, Creature.heal and the values of Creature.attack
is_alive(c) == c.hp > 0

heal(c, amount) == [c EXCEPT !.hp = Min(c.max_hp, c.hp + amount)]

Attacks(c) == c.min_atk..c.max_atk

\* The save file when the game starts: absent; not JSON; a save; a save
\* whose room_index int() does not accept; a save written by hand with a
\* player at 0 hp.  room_ok says that int() accepts the room_index.
Files ==
    {<<>>,
     <<[kind |-> "corrupt"]>>,
     <<[kind |-> "save", room_ok |-> TRUE, room_index |-> 7,
        player |-> [hp |-> 7, max_hp |-> 20, min_atk |-> 2, max_atk |-> 6,
                    potions |-> 0]]>>,
     <<[kind |-> "save", room_ok |-> FALSE, room_index |-> 0,
        player |-> [hp |-> 7, max_hp |-> 20, min_atk |-> 2, max_atk |-> 6,
                    potions |-> 0]]>>,
     <<[kind |-> "save", room_ok |-> TRUE, room_index |-> 0,
        player |-> [hp |-> 0, max_hp |-> 20, min_atk |-> 2, max_atk |-> 6,
                    potions |-> 1]]>>}

\* Game.__init__ with the save file f.  origin is history: how the game
\* left the menu.
InitGame(f) ==
    [state |-> "menu", player |-> <<>>, room_index |-> 0,
     current_enemy |-> <<>>, file |-> f, origin |-> "none",
     raised |-> FALSE]

\* save_game: the file is written, or open() fails.  run never comes back
\* to the menu, which alone reads the file, so of a file written in the run
\* the model keeps only that it was written.
save_game(g, ok) ==
    IF g.player = <<>> \/ ~ok THEN g
    ELSE [g EXCEPT !.file = <<[kind |-> "written"]>>]

\* load_game: the game after the call and what the call returned.
load_game(g) ==
    IF g.file = <<>> \/ g.file[1].kind # "save"
    THEN [g |-> g, ret |-> FALSE]
    ELSE LET f == g.file[1]
             g1 == [g EXCEPT !.player = <<f.player>>]
         IN  IF ~f.room_ok THEN [g |-> g1, ret |-> FALSE]
             ELSE [g |-> [g1 EXCEPT !.room_index = f.room_index % NumRooms,
                                    !.current_enemy = <<>>,
                                    !.state = "explore"],
                   ret |-> TRUE]

\* menu, for the choice typed.
menu(g, choice) ==
    CASE choice = "1" ->
             [g EXCEPT !.player = <<NewPlayer>>, !.room_index = 0,
                       !.state = "explore", !.origin = "new"]
      [] choice = "2" ->
             IF load_game(g).ret
             THEN [load_game(g).g EXCEPT !.state = "explore",
                                         !.origin = "load"]
             ELSE load_game(g).g
      [] choice = "3" -> [g EXCEPT !.state = "quit"]
      [] OTHER -> g

\* move, for the direction typed.
move(g, direction) ==
    CASE direction = "f" ->
             [g EXCEPT !.room_index = (@ + 1) % NumRooms]
      [] direction = "b" ->
             [g EXCEPT !.room_index = (@ - 1) % NumRooms]
      [] OTHER -> g

\* explore, for the command and the direction typed; encounter is
\* random.random() < 0.45, enemy what spawn_monster returns, ok whether
\* the save file can be written.
explore(g, cmd, direction, encounter, enemy, ok) ==
    IF g.player = <<>> THEN [g EXCEPT !.raised = TRUE]
    ELSE CASE cmd = "m" ->
                  IF encounter
                  THEN [move(g, direction) EXCEPT
                            !.current_enemy = <<enemy>>,
                            !.state = "combat"]
                  ELSE move(g, direction)
           [] cmd = "r" -> [g EXCEPT !.player[1] = heal(@, 4)]
           [] cmd = "s" -> save_game(g, ok)
           [] cmd = "q" -> [g EXCEPT !.state = "quit"]
           [] OTHER -> g

\* Mutant of PlayerFell: a player at exactly 0 hp fights on.
PlayerFellBelowZero(p) == p.hp < 0

\* Lines 117, 130 and 145: the player has fallen.
PlayerFell(p) == p.hp <= 0

\* Lines 114-119, 127-132 and 142-147: the enemy hits for edmg.
Struck(g, edmg) ==
    LET g1 == [g EXCEPT !.player[1].hp = @ - edmg]
    IN  IF PlayerFell(g1.player[1]) THEN [g1 EXCEPT !.state = "quit"]
        ELSE g1

\* Mutant of Leave: the enemy stays the current enemy.
LeaveKeepingEnemy(g) == [g EXCEPT !.state = "explore"]

\* Lines 110-111 and 138-139: the combat is over, by victory or by escape.
Leave(g) == [g EXCEPT !.current_enemy = <<>>, !.state = "explore"]

\* combat, for the command typed; dmg and edmg are what player.attack()
\* and enemy.attack() draw, escaped is random.random() < 0.6.
combat(g, cmd, dmg, edmg, escaped) ==
    IF g.player = <<>> \/ g.current_enemy = <<>>
    THEN [g EXCEPT !.raised = TRUE]
    ELSE CASE cmd = "a" ->
                  LET g1 == [g EXCEPT !.current_enemy[1].hp = @ - dmg]
                  IN  IF g1.current_enemy[1].hp <= 0 THEN Leave(g1)
                      ELSE Struck(g1, edmg)
           [] cmd = "p" ->
                  IF g.player[1].potions > 0
                  THEN LET g1 == [g EXCEPT
                                     !.player[1] =
                                         heal([@ EXCEPT !.potions = @ - 1],
                                              8)]
                       IN  IF is_alive(g1.current_enemy[1])
                           THEN Struck(g1, edmg)
                           ELSE g1
                  ELSE g
           [] cmd = "r" -> IF escaped THEN Leave(g) ELSE Struck(g, edmg)
           [] OTHER -> g

\* A game is constructed and run; there is no dungeon and no view.
InitText ==
    /\ grid = <<>>
    /\ player = PlayerState(0, 0, 0)
    /\ visited = <<>>
    /\ items = <<>>
    /\ monsters = <<>>
    /\ messages = <<>>
    /\ last = [op |-> "none", nx |-> 0, ny |-> 0, ret |-> <<>>, pre |-> <<>>]
    /\ occupied = {}
    /\ gen = NoGen
    /\ view = NoView
    /\ \E f \in Files : game = InitGame(f)

UnchangedDungeon ==
    UNCHANGED <<grid, player, visited, items, monsters, messages, last,
                occupied, gen, view>>

\* Lines 30-36: run calls the handler of the state.
Menu ==
    /\ game.state = "menu"
    /\ ~game.raised
    /\ \E choice \in {"1", "2", "3", "other"} : game' = menu(game, choice)
    /\ UnchangedDungeon

Explore ==
    /\ game.state = "explore"
    /\ ~game.raised
    /\ \E cmd \in {"m", "r", "i", "s", "q", "other"},
          direction \in {"f", "b", "other"},
          encounter \in BOOLEAN, enemy \in Spawns, ok \in BOOLEAN :
           game' = explore(game, cmd, direction, encounter, enemy, ok)
    /\ UnchangedDungeon

Combat ==
    /\ game.state = "combat"
    /\ ~game.raised
    /\ IF game.player = <<>> \/ game.current_enemy = <<>>
       THEN game' = combat(game, "a", 0, 0, FALSE)
       ELSE \E cmd \in {"a", "p", "r", "other"},
               dmg \in Attacks(game.player[1]),
               edmg \in Attacks(game.current_enemy[1]),
               escaped \in BOOLEAN :
                game' = combat(game, cmd, dmg, edmg, escaped)
    /\ UnchangedDungeon

NextText == Menu \/ Explore \/ Combat

SpecText == InitText /\ [][NextText]_vars

----------------------------------------------------------------------------
(* Vocabulary of the properties.  Pre is the world the last command was    *)
(* applied to and Cand its candidate cell; tiles are read from the grid    *)
(* itself.                                                                 *)

Pre == last.pre
Pos == <<player.x, player.y>>
PrePos == <<Pre.player.x, Pre.player.y>>
Cand == <<last.nx, last.ny>>
IsStep == last.op \in {"step_forward", "step_back"}
IsTurn == last.op \in {"turn_left", "turn_right"}

InGrid(g, c) == 0 <= c[1] /\ c[1] < Len(g[1]) /\ 0 <= c[2] /\ c[2] < Len(g)
IsFloor(g, c) == InGrid(g, c) /\ g[c[2] + 1][c[1] + 1] = 0
MonstersAt(ms, c) == { i \in 1..Len(ms) : ms[i].x = c[1] /\ ms[i].y = c[2] }
ItemsAt(its, c) == { i \in 1..Len(its) : its[i].x = c[1] /\ its[i].y = c[2] }
\* The list s without its element number i.
Without(s, i) == SubSeq(s, 1, i - 1) \o SubSeq(s, i + 1, Len(s))

\* The messages the last command appended, when it kept the older ones.
KeepsOldMsgs ==
    /\ Len(messages) >= Len(Pre.messages)
    /\ SubSeq(messages, 1, Len(Pre.messages)) = Pre.messages
NewMsgs == SubSeq(messages, Len(Pre.messages) + 1, Len(messages))
CountKind(s, k) == Cardinality({ i \in 1..Len(s) : s[i].kind = k })

\* The facing's unit vector: N, E, S, W.
FacingVec == << <<0, -1>>, <<1, 0>>, <<0, 1>>, <<-1, 0>> >>
UnitOf(f) == FacingVec[f + 1]

\* The last command was a step whose candidate cell was blocked, free, or
\* held a monster.
BlockedStep ==
    IsStep /\ ~IsFloor(Pre.grid, Cand) /\ MonstersAt(Pre.monsters, Cand) = {}
FreeStep ==
    IsStep /\ IsFloor(Pre.grid, Cand) /\ MonstersAt(Pre.monsters, Cand) = {}
CombatStep == IsStep /\ MonstersAt(Pre.monsters, Cand) # {}

----------------------------------------------------------------------------
\* C1: after construction and after every turn and step, the player's
\* position is inside the grid and on a floor tile.
C1_PlayerOnFloor == IsFloor(grid, Pos)

\* C1 witness: the player has stepped next to a wall and stands on a cell
\* other than the start cell.
C1_Witness ==
    /\ IsStep
    /\ Pos # PrePos
    /\ \E f \in 0..3 :
           ~IsFloor(grid, <<player.x + UnitOf(f)[1], player.y + UnitOf(f)[2]>>)

\* C2: a step whose candidate cell is a wall (or outside the grid) and holds
\* no monster changes nothing: position, facing, hp, gold, weapon, items,
\* monsters, visited grid and message queue are as before.
C2_BlockedStepIsNoOp == BlockedStep => World = Pre

\* C2 witness: a step was taken toward a cell outside the grid.
C2_Witness == BlockedStep /\ ~InGrid(Pre.grid, Cand)

\* C3: the candidate of step_forward is the position plus the facing's unit
\* vector, that of step_back the position minus it; when it is a floor cell
\* without a monster, the player moves exactly there, the cell is visited,
\* the item on it is picked up, and facing and hp are unchanged.
C3_FreeStepMoves ==
    /\ last.op = "step_forward" =>
           Cand = <<Pre.player.x + UnitOf(Pre.player.facing)[1],
                    Pre.player.y + UnitOf(Pre.player.facing)[2]>>
    /\ last.op = "step_back" =>
           Cand = <<Pre.player.x - UnitOf(Pre.player.facing)[1],
                    Pre.player.y - UnitOf(Pre.player.facing)[2]>>
    /\ FreeStep =>
           /\ Pos = Cand
           /\ visited[Cand[2] + 1][Cand[1] + 1] = TRUE
           /\ ItemsAt(items, Cand) = {}
           /\ \A i \in ItemsAt(Pre.items, Cand) :
                  /\ items = Without(Pre.items, i)
                  /\ KeepsOldMsgs /\ Len(NewMsgs) = 1
           /\ ItemsAt(Pre.items, Cand) = {} =>
                  items = Pre.items /\ messages = Pre.messages
           /\ player.facing = Pre.player.facing
           /\ player.hp = Pre.player.hp
           /\ monsters = Pre.monsters

\* C3 witness: a step back onto a free floor cell that held an item.
C3_Witness ==
    /\ last.op = "step_back"
    /\ FreeStep
    /\ ItemsAt(Pre.items, Cand) # {}
    /\ Pre.player.facing \in {0, 2}

\* The monster a combat step attacks (the first in the list on the candidate
\* cell), and the damage the player deals: max(0, base_atk + weapon_atk).
Target == CHOOSE i \in MonstersAt(Pre.monsters, Cand) :
              \A j \in MonstersAt(Pre.monsters, Cand) : i <= j
Damage ==
    IF Pre.player.base_atk + Pre.player.weapon_atk > 0
    THEN Pre.player.base_atk + Pre.player.weapon_atk ELSE 0
LethalStep == CombatStep /\ Pre.monsters[Target].hp - Damage <= 0
NonLethalStep == CombatStep /\ Pre.monsters[Target].hp - Damage > 0

\* C4: a step whose candidate cell holds a monster always resolves as
\* combat, wall or not: the monster loses max(0, effective attack) hp (and
\* leaves the list if that brings it to 0 or below), at least one message is
\* appended, and the step is no silent no-op.
C4_MonsterMeansCombat ==
    CombatStep =>
        /\ KeepsOldMsgs
        /\ Len(NewMsgs) >= 1
        /\ NewMsgs[1].kind \in {"defeated", "hit"}
        /\ World # Pre
        /\ \/ /\ Pre.monsters[Target].hp - Damage <= 0
              /\ monsters = Without(Pre.monsters, Target)
           \/ /\ Len(monsters) = Len(Pre.monsters)
              /\ monsters[Target].hp = Pre.monsters[Target].hp - Damage
              /\ monsters = [Pre.monsters EXCEPT
                                ![Target].hp = Pre.monsters[Target].hp - Damage]

\* C4 witness: a step attacked a monster standing on a wall cell.
C4_Witness == CombatStep /\ ~IsFloor(Pre.grid, Cand)

\* C5: when the attacked monster's hp minus max(0, base_atk + weapon_atk) is
\* 0 or less, that step removes the monster, queues exactly one victory
\* message and no combat or defeat message, leaves the player's hp as it
\* was, and ends with the player on the monster's former cell.
C5_LethalAttack ==
    LethalStep =>
        /\ monsters = Without(Pre.monsters, Target)
        /\ KeepsOldMsgs
        /\ CountKind(NewMsgs, "defeated") = 1
        /\ CountKind(NewMsgs, "hit") = 0
        /\ CountKind(NewMsgs, "fallen") = 0
        /\ NewMsgs[1] = Msg("defeated", Pre.monsters[Target].name, 0, 0)
        /\ player.hp = Pre.player.hp
        /\ Pos = Cand

\* C5 witness: an attack that brought the monster to exactly 0 hp.
C5_Witness == LethalStep /\ Pre.monsters[Target].hp - Damage = 0

\* The hp a surviving monster's retaliation costs: max(0, monster atk).
Retaliation ==
    IF Pre.monsters[Target].atk > 0 THEN Pre.monsters[Target].atk ELSE 0

\* C6: when the attacked monster's hp stays above 0, it stays in the list
\* with its hp reduced by exactly max(0, effective attack), the player's hp
\* is reduced by exactly max(0, monster atk), exactly one combat message is
\* queued, and the player does not move.
C6_NonLethalAttack ==
    NonLethalStep =>
        /\ monsters = [Pre.monsters EXCEPT
                          ![Target].hp = Pre.monsters[Target].hp - Damage]
        /\ player.hp = Pre.player.hp - Retaliation
        /\ KeepsOldMsgs
        /\ CountKind(NewMsgs, "hit") = 1
        /\ CountKind(NewMsgs, "defeated") = 0
        /\ NewMsgs[1] = Msg("hit", Pre.monsters[Target].name,
                            Pre.monsters[Target].hp - Damage,
                            Pre.monsters[Target].atk)
        /\ Pos = PrePos
        /\ player.facing = Pre.player.facing
        /\ items = Pre.items
        /\ visited = Pre.visited

\* C6 witness: the monster survived a blow and struck back.
C6_Witness ==
    /\ NonLethalStep
    /\ Damage > 0
    /\ Retaliation > 0
    /\ last.op = "step_forward"

\* C7: when the retaliation leaves the player's hp at 0 or below, the defeat
\* message follows the combat message of that step at once, and no other
\* command queues one; death stops nothing: turns and steps issued at
\* hp <= 0 take effect as at any other hp.
C7_DeathIsOnlyAMessage ==
    /\ NonLethalStep /\ player.hp <= 0 =>
           /\ KeepsOldMsgs
           /\ Len(NewMsgs) = 2
           /\ NewMsgs[1].kind = "hit"
           /\ NewMsgs[2] = Msg("fallen", "", 0, 0)
    /\ (IsStep \/ IsTurn) /\ ~(NonLethalStep /\ player.hp <= 0) =>
           KeepsOldMsgs /\ CountKind(NewMsgs, "fallen") = 0
    /\ Pre.player.hp <= 0 =>
           /\ last.op = "turn_left" =>
                  player.facing = (Pre.player.facing + 3) % 4
           /\ last.op = "turn_right" =>
                  player.facing = (Pre.player.facing + 1) % 4
           /\ FreeStep => Pos = Cand
           /\ CombatStep => monsters # Pre.monsters

\* C7 witness: a player already at hp <= 0 attacked again, was hit again and
\* the defeat message was queued again.
C7_Witness ==
    /\ NonLethalStep
    /\ Pre.player.hp <= 0
    /\ player.hp < Pre.player.hp
    /\ NewMsgs[2].kind = "fallen"

\* C8: no command raises the player's hp; it drops only in a step whose
\* candidate cell holds a monster that survives the blow; turns, blocked
\* steps, free moves, drains and lethal attacks leave it unchanged.
C8_OnlyRetaliationHurts ==
    /\ (IsStep \/ IsTurn \/ last.op = "drain_messages") =>
           player.hp <= Pre.player.hp
    /\ (IsStep \/ IsTurn \/ last.op = "drain_messages")
           /\ player.hp < Pre.player.hp =>
           /\ NonLethalStep
           /\ Len(monsters) = Len(Pre.monsters)
           /\ monsters[Target].hp > 0
    /\ (IsTurn \/ BlockedStep \/ FreeStep \/ LethalStep
           \/ last.op = "drain_messages") =>
           player.hp = Pre.player.hp

\* C8 witness: a monster was defeated by a player it had hurt before.
C8_Witness == LethalStep /\ player.hp < 10 /\ player.hp > 0

\* The last command moved the player onto its candidate cell.
Entered == IsStep /\ Pos = Cand

\* C9: entering a cell that holds a gold item of amount a >= 0 adds exactly
\* a to the player's gold, removes the item so that none is left on the
\* cell, and queues exactly one pickup message.
C9_GoldPickup ==
    \A i \in ItemsAt(Pre.items, Cand) :
        Entered /\ Pre.items[i].kind = "gold" /\ Pre.items[i].amount >= 0 =>
            /\ player.gold = Pre.player.gold + Pre.items[i].amount
            /\ items = Without(Pre.items, i)
            /\ ItemsAt(items, Cand) = {}
            /\ KeepsOldMsgs
            /\ CountKind(NewMsgs, "gold") = 1
            /\ CountKind(NewMsgs, "equipped") + CountKind(NewMsgs, "kept") = 0
            /\ NewMsgs[Len(NewMsgs)] = Msg("gold", "", Pre.items[i].amount, 0)

\* C9 witness: the player, already carrying gold, picked up another pile.
C9_Witness ==
    /\ Entered
    /\ Pre.player.gold > 0
    /\ \E i \in ItemsAt(Pre.items, Cand) : Pre.items[i].kind = "gold"

----------------------------------------------------------------------------
\* The facing after a left and after a right turn, by facing N, E, S, W.
LeftOf == <<3, 0, 1, 2>>
RightOf == <<1, 2, 3, 0>>
IsCommand ==
    last.op \in {"turn_left", "turn_right", "step_forward", "step_back",
                 "drain_messages"}

\* C11: turn_left sets facing to (facing - 1) mod 4 and turn_right to
\* (facing + 1) mod 4; both keep facing in 0..3, undo each other, restore
\* the facing when applied four times, and leave the position, hp, gold,
\* weapon, items, monsters, visited flags and messages unchanged.
C11_Turns ==
    /\ player.facing \in 0..3
    /\ last.op = "turn_left" =>
           World = [Pre EXCEPT !.player.facing = LeftOf[@ + 1]]
    /\ last.op = "turn_right" =>
           World = [Pre EXCEPT !.player.facing = RightOf[@ + 1]]
    /\ turn_right(turn_left(World)) = World
    /\ turn_left(turn_right(World)) = World
    /\ turn_left(turn_left(turn_left(turn_left(World)))) = World
    /\ turn_right(turn_right(turn_right(turn_right(World)))) = World

\* C11 witness: a left turn from north wrapped around to west, with
\* messages waiting in the queue.
C11_Witness ==
    /\ last.op = "turn_left"
    /\ Pre.player.facing = 0
    /\ player.facing = 3
    /\ messages # <<>>

\* The cells whose visited flag is set.
VisitedCells(v) ==
    { c \in (0..(Len(v[1]) - 1)) \X (0..(Len(v) - 1)) : v[c[2] + 1][c[1] + 1] }

\* C12: a visited flag that is true stays true across every turn, step and
\* drain.
C12_VisitedMonotonic ==
    [][VisitedCells(visited) \subseteq VisitedCells(visited')]_vars

\* C12 witness: the queue was drained after the player had been on three
\* cells, all of them still flagged.
C12_Witness ==
    /\ last.op = "drain_messages"
    /\ Cardinality(occupied) >= 3
    /\ occupied \subseteq VisitedCells(visited)

\* C13: visited has the grid's dimensions and is true exactly for the cells
\* the player has occupied since construction, the start cell and the cells
\* taken from defeated monsters included; the current cell is visited and no
\* wall cell is.
C13_VisitedIsTrail ==
    /\ Len(visited) = Len(grid)
    /\ \A y \in 1..Len(grid) : Len(visited[y]) = Len(grid[y])
    /\ VisitedCells(visited) = occupied
    /\ Pos \in VisitedCells(visited)
    /\ \A c \in VisitedCells(visited) : IsFloor(grid, c)

\* C13 witness: the player has just entered the cell of a defeated monster.
C13_Witness ==
    /\ LethalStep
    /\ Pos = Cand
    /\ Cand \notin VisitedCells(Pre.visited)
    /\ Cardinality(occupied) >= 3

\* The last operation was a query of the view.
IsQuery == last.op \in {"is_wall", "transform_local"}

\* C14: no command and no query changes a tile or the dimensions of the
\* grid: after any sequence of them the grid is the one of construction.
C14_GridNeverChanges == grid \in Grids /\ grid = Pre.grid

\* C14 witness: the view queried the world after the player had walked and
\* taken something from the floor.
C14_Witness ==
    /\ IsQuery
    /\ Cardinality(occupied) >= 3
    /\ player.gold > 0

\* C15: drain_messages returns the queued messages in order and leaves the
\* queue empty, so a drain that follows at once returns the empty list;
\* every other command keeps the queued messages in order and only appends,
\* so each message is returned by exactly one drain.
C15_DrainDelivers ==
    /\ last.op = "drain_messages" =>
           /\ last.ret = Pre.messages
           /\ World = [Pre EXCEPT !.messages = <<>>]
           /\ drain_messages(World).ret = <<>>
    /\ IsCommand /\ last.op # "drain_messages" => KeepsOldMsgs

\* C15 witness: a drain returned two messages, the monster's hit before the
\* player's fall.
C15_Witness ==
    /\ last.op = "drain_messages"
    /\ Len(last.ret) = 2
    /\ last.ret[1].kind = "hit"
    /\ last.ret[2].kind = "fallen"
    /\ messages = <<>>

\* C16: is_wall is true for every coordinate outside the grid, negative
\* ones included, and inside the grid exactly when the tile is a wall; it
\* changes nothing.
C16_IsWall ==
    last.op = "is_wall" =>
        /\ last.ret[1] = (~InGrid(grid, Cand) \/ grid[Cand[2] + 1][Cand[1] + 1] = 1)
        /\ World = Pre

\* C16 witness: a cell left of the grid, at a negative x, was found to be a
\* wall.
C16_Witness ==
    /\ last.op = "is_wall"
    /\ last.nx < 0
    /\ last.ret[1]

\* C17: transform_local(forward, right) is the player's cell moved forward
\* along the facing and right along the facing turned right, that is
\* (x+right, y-forward), (x+forward, y+right), (x-right, y+forward),
\* (x-forward, y-right) for N, E, S, W; transform_local(1, 0) is the
\* candidate cell of step_forward and transform_local(-1, 0) that of
\* step_back; the call changes nothing.
C17_TransformLocal ==
    /\ last.op = "transform_local" =>
           LET fv == UnitOf(player.facing)
               rv == UnitOf(RightOf[player.facing + 1])
           IN  /\ last.ret = <<player.x + last.nx * fv[1] + last.ny * rv[1],
                               player.y + last.nx * fv[2] + last.ny * rv[2]>>
               /\ World = Pre
    /\ transform_local(World, 1, 0) = ForwardCell(World)
    /\ transform_local(World, -1, 0) = BackCell(World)
    /\ last.op = "step_forward" => Cand = transform_local(Pre, 1, 0)
    /\ last.op = "step_back" => Cand = transform_local(Pre, -1, 0)

\* C17 witness: facing west, the cell two ahead and one to the left was
\* computed.
C17_Witness ==
    /\ last.op = "transform_local"
    /\ player.facing = 3
    /\ last.nx = 2
    /\ last.ny = -1
    /\ last.ret = <<player.x - 2, player.y + 1>>

----------------------------------------------------------------------------
\* The floor cells of a grid and its passages, the pairs of floor cells
\* next to each other.
Floors(g) ==
    { c \in (0..(Len(g[1]) - 1)) \X (0..(Len(g) - 1)) :
        g[c[2] + 1][c[1] + 1] = 0 }
Adjacent(a, b) ==
    \/ a[1] = b[1] /\ (a[2] = b[2] + 1 \/ b[2] = a[2] + 1)
    \/ a[2] = b[2] /\ (a[1] = b[1] + 1 \/ b[1] = a[1] + 1)
Passages(g) ==
    LET F == Floors(g)
    IN  { p \in F \X {<<1, 0>>, <<0, 1>>} :
            <<p[1][1] + p[2][1], p[1][2] + p[2][2]>> \in F }

\* The cells of F that can be reached from those of S through cells of F.
RECURSIVE Reach(_, _)
Reach(F, S) ==
    LET N == S \cup { c \in F : \E a \in S : Adjacent(a, c) }
    IN  IF N = S THEN S ELSE Reach(F, N)

\* Reachability is symmetric, so the floor cells are mutually reachable
\* when all of them are reached from one.
Connected(g) ==
    LET F == Floors(g)
    IN  F = {} \/ Reach(F, {CHOOSE c \in F : TRUE}) = F

Carving == gen.pc = "loop"
Returned == gen.pc = "done"

\* C18: in the grid generate_maze returns, and in the carved grid before
\* its post-processing, every floor cell is reachable from every other one
\* through floor cells next to each other.
C18_FloorsConnected == Carving \/ Returned => Connected(gen.grid)

\* C18 witness: a 7 by 7 maze was returned with all nine cells and the
\* eight passages between them carved.
C18_Witness ==
    /\ Returned
    /\ gen.w = 7
    /\ gen.h = 7
    /\ Cardinality(Floors(gen.grid)) = 17

\* C19: the generated grid is a perfect maze: its floor cells are connected
\* and have one passage less than cells, so the floor graph has no cycle
\* and any two floor cells are joined by exactly one simple path.
C19_PerfectMaze ==
    Carving \/ Returned =>
        /\ Connected(gen.grid)
        /\ Cardinality(Passages(gen.grid)) + 1 = Cardinality(Floors(gen.grid))

\* C19 witness: a returned maze has a cell where the carving branched after
\* backtracking.
C19_Witness ==
    /\ Returned
    /\ \E c \in Floors(gen.grid) :
           Cardinality({ a \in Floors(gen.grid) : Adjacent(a, c) }) >= 3

\* C20: in the returned grid every cell of the outer ring is a wall and
\* (1, 1) is a floor.
C20_RingAndEntrance ==
    Returned =>
        /\ \A x \in 1..gen.w : gen.grid[1][x] = 1 /\ gen.grid[gen.h][x] = 1
        /\ \A y \in 1..gen.h : gen.grid[y][1] = 1 /\ gen.grid[y][gen.w] = 1
        /\ gen.grid[2][2] = 0

\* C20 witness: a maze was returned for a negative width and a height of 7.
C20_Witness ==
    /\ Returned
    /\ gen.width < 0
    /\ gen.height = 7
    /\ gen.w = 5

----------------------------------------------------------------------------
\* The second of two calls with the same width, height and seed returned.
ReturnedAgain == Returned /\ gen.calls = 2

\* C21: two calls of generate_maze with the same width, height and seed
\* return identical grids.
C21_SameArgumentsSameGrid == ReturnedAgain => gen.grid = gen.prev

\* With an integer seed the two calls return identical grids.
C21_IntegerSeedSameGrid ==
    ReturnedAgain /\ gen.seed # <<>> => gen.grid = gen.prev

\* A second call with an integer seed returned a 7 by 7 maze.
C21_IntegerSeedWitness ==
    /\ ReturnedAgain
    /\ gen.seed # <<>>
    /\ gen.w = 7
    /\ gen.h = 7

\* The size generate_maze is to make of the argument n.
Normal(n) == IF n < 5 THEN 5 ELSE IF n % 2 = 1 THEN n ELSE n - 1

\* C22: for every width and height, zero, negative and below 5 included,
\* the grid of generate_maze has an odd width and height of at least 5: an
\* odd argument from 5 on is kept, an even one from 6 on is decremented and
\* anything smaller becomes 5.
C22_SizeNormalised ==
    gen.pc # "idle" =>
        /\ gen.w = Normal(gen.width) /\ gen.w % 2 = 1 /\ gen.w >= 5
        /\ gen.h = Normal(gen.height) /\ gen.h % 2 = 1 /\ gen.h >= 5
        /\ Len(gen.grid) = gen.h
        /\ \A y \in 1..gen.h : Len(gen.grid[y]) = gen.w

\* C22 witness: a grid of 5 by 5 was returned for a width of 0 and a height
\* of 6.
C22_Witness ==
    /\ Returned
    /\ gen.width = 0
    /\ gen.height = 6
    /\ gen.w = 5
    /\ gen.h = 5

----------------------------------------------------------------------------
\* The cells of the entities of a list.
CellsOf(s) == { <<s[i].x, s[i].y>> : i \in 1..Len(s) }
\* The number of floor cells other than the player's.
FreeFloors == Cardinality(Floors(grid) \ {Pos})
Constructed == last.op = "init"

\* C23: right after construction every item and every monster stands on a
\* floor cell, no two of them share a cell, none stands on the player's
\* start cell, and there are at most 8 gold piles, at most 3 weapons and at
\* most max(10, remaining floors \div 5) monsters, the remaining floors being
\* those left free by the items.
C23_Populated ==
    Constructed =>
        /\ \A c \in CellsOf(items) \cup CellsOf(monsters) :
               IsFloor(grid, c) /\ c # Pos
        /\ Cardinality(CellsOf(items) \cup CellsOf(monsters))
               = Len(items) + Len(monsters)
        /\ CountKind(items, "gold") <= 8
        /\ CountKind(items, "weapon") <= 3
        /\ CountKind(items, "gold") + CountKind(items, "weapon") = Len(items)
        /\ Len(monsters) <= Max(10, (FreeFloors - Len(items)) \div 5)

\* C23 witness: a dungeon was constructed with more than ten monsters, as
\* many as a fifth of the floors the items left, and free floors remain.
C23_Witness ==
    /\ Constructed
    /\ Len(monsters) > 10
    /\ Len(monsters) = (FreeFloors - Len(items)) \div 5
    /\ Len(items) = 11

----------------------------------------------------------------------------
\* The last operation was a load; what it was given and how it ended.
IsLoad == last.op = "load_from_file"
Raised == last.ret[1].raised
Loaded == last.ret[1].data
GridReplaced == Loaded.base.has_grid /\ Loaded.base.grid # Pre.grid

\* C24: load_dict never raises, whatever is wrong with the save, and never
\* leaves the grid replaced by the loaded one while the player, the visited
\* flags, the items and the monsters are those of before.
C24_LoadAllOrNothing ==
    IsLoad =>
        /\ ~Raised
        /\ ~(/\ GridReplaced
             /\ grid = Loaded.base.grid
             /\ player = Pre.player
             /\ visited = Pre.visited
             /\ items = Pre.items
             /\ monsters = Pre.monsters)

\* The save's visited flags have not the dimensions of the grid the load
\* left: another number of rows or a row of another length.
VisitedMismatch ==
    /\ Loaded.base.has_visited
    /\ \/ Len(Loaded.base.visited) # Len(grid)
       \/ \E r \in 1..Len(Loaded.base.visited) :
              Len(Loaded.base.visited[r]) # Len(grid[1])
SameDimensions(v, g) ==
    Len(v) = Len(g) /\ \A r \in 1..Len(g) : Len(v[r]) = Len(g[r])

----------------------------------------------------------------------------
(* The frame loop.                                                         *)

\* The frame's events and held keys have been handled and its messages
\* drained: _draw is about to be called.
BeforeRender == view.pc = "draw"

\* _draw has just returned and the next frame has handled nothing yet.
JustRendered ==
    /\ view.pc \in {"events", "exit"}
    /\ view.frames >= 1
    /\ view.nev = 0

\* C26 as stated, in its weaker half: between two consecutive renders never
\* more than one movement command is applied to the dungeon.
C26_NeverMoreThanOne ==
    (BeforeRender /\ view.frames >= 1) => Len(view.cmds) <= 1

\* C26 amended: the movement commands applied between two consecutive
\* renders are one for each key-down event of a movement key handled with
\* the menu closed, followed by the repeats the held keys have come to,
\* none or several; all of them are applied before the frame's
\* drain_messages, which is the last call on the dungeon before the render
\* and leaves the queue empty.
C26_CommandsOfTheFrame ==
    BeforeRender =>
        /\ Len(view.cmds) = view.keycmds + view.due
        /\ view.keycmds <= view.nev
        /\ last.op = "drain_messages"
        /\ messages = <<>>

\* C26 witness: a render after the first is about to be made with three
\* commands applied since the last one, one from a key-down event and two
\* from a held key.
C26_Witness ==
    /\ BeforeRender
    /\ view.frames >= 1
    /\ Len(view.cmds) = 3
    /\ view.keycmds = 1
    /\ view.due = 2

\* The depths k of 0..max_probe-1 whose cell k + 1 straight ahead of the
\* player of w is a wall.
WallsAhead(w) ==
    { k \in 0..(max_probe - 1) :
        is_wall(w, transform_local(w, k + 1, 0)[1],
                transform_local(w, k + 1, 0)[2]) }

\* The smallest of them, absent if there is none.
LeastWallAhead(w) ==
    LET hits == WallsAhead(w)
    IN  IF hits = {} THEN <<>>
        ELSE <<CHOOSE k \in hits : \A j \in hits : k <= j>>

\* C27: every render of the first-person view leaves the world as it is,
\* and its nearest_front is the smallest depth k of 0..255 whose cell
\* transform_local(k+1, 0) is a wall for the player as it is at that render,
\* absent if there is no such depth.
C27_NearestFront ==
    [][BeforeRender =>
          /\ World' = World
          /\ ~view'.shown.map =>
                 view'.shown.nearest_front = LeastWallAhead(World')]_vars

\* C27 witness: the second render was made after the player had walked and
\* turned, with a wall ahead that is not the next cell.
C27_Witness ==
    /\ JustRendered
    /\ ~view.shown.map
    /\ view.frames = 2
    /\ Cardinality(occupied) >= 2
    /\ player.facing # 1
    /\ view.shown.nearest_front # <<>>
    /\ view.shown.nearest_front[1] >= 1
    /\ view.shown.nearest_front[1] + 1 = view.shown.layers

\* The last render showed the first-person view.
FirstPerson == JustRendered /\ ~view.shown.map

IsLayer(op) == op.what = "layer"

\* The depths of the layers the last render went through, in order.
LayersVisited ==
    LET ls == SelectSeq(view.shown.ops, IsLayer)
    IN  [i \in 1..Len(ls) |-> ls[i].d]

\* The depths at which the last render drew a wall of the kind what.
DepthsDrawn(what) ==
    { view.shown.ops[i].d :
        i \in { j \in 1..Len(view.shown.ops) :
                   view.shown.ops[j].what = what } }

\* C28: a render goes through exactly nearest_front + 1 layers when an
\* occluder is found and the geometry depth limit otherwise, from the
\* farthest to the nearest without a gap, and draws a front wall at the
\* depth nearest_front and at no other depth.
C28_LayersFarToNear ==
    FirstPerson =>
        LET nf == view.shown.nearest_front
            n == view.shown.layers
        IN  /\ n = IF nf # <<>> THEN nf[1] + 1 ELSE _geom_depth_limit
            /\ LayersVisited = [i \in 1..n |-> n - i]
            /\ DepthsDrawn("front") = IF nf # <<>> THEN {nf[1]} ELSE {}
            /\ \A i \in 1..Len(view.shown.ops) :
                   view.shown.ops[i].what \in {"left", "right", "front"} =>
                       view.shown.ops[i].d \in 0..(n - 1)

\* C28 witness: a render with an occluder three cells or more ahead went
\* through its layers and drew the front wall.
C28_Witness ==
    /\ FirstPerson
    /\ view.shown.nearest_front # <<>>
    /\ view.shown.nearest_front[1] >= 2
    /\ Len(LayersVisited) >= 3
    /\ DepthsDrawn("front") # {}
    /\ DepthsDrawn("left") \cup DepthsDrawn("right") # {}

\* The cell d + 1 ahead and one to the side (-1 left, 1 right) of the player
\* is a wall.
SideIsWall(d, side) ==
    is_wall(World, transform_local(World, d + 1, side)[1],
            transform_local(World, d + 1, side)[2])

\* The place of the first entry of the last render with this kind and
\* depth.
PlaceOf(what, d) ==
    CHOOSE i \in 1..Len(view.shown.ops) :
        /\ view.shown.ops[i].what = what
        /\ view.shown.ops[i].d = d
        /\ \A j \in 1..(i - 1) :
               ~(view.shown.ops[j].what = what /\ view.shown.ops[j].d = d)

EntriesDrawn(what) ==
    { view.shown.ops[i] :
        i \in { j \in 1..Len(view.shown.ops) :
                   view.shown.ops[j].what = what } }

\* C30: the front wall at the nearest blocking depth is drawn with the
\* brightness 1.0 and the alpha 255 whatever the depth is, and no fog ring
\* is drawn at a depth up to nearest_front.
C30_NearestFrontUnfogged ==
    (FirstPerson /\ view.shown.nearest_front # <<>>) =>
        LET nf == view.shown.nearest_front[1]
        IN  /\ \E op \in EntriesDrawn("front") : op.d = nf
            /\ \A op \in EntriesDrawn("front") :
                   op.d = nf => op.b[1] = op.b[2] /\ op.alpha = 255
            /\ \A op \in EntriesDrawn("fog") : op.d > nf

\* C30 witness: the front wall was drawn at a depth past fog_min_start and
\* inside the fog window, where _fog_params dims and fades.
C30_Witness ==
    /\ FirstPerson
    /\ view.shown.nearest_front # <<>>
    /\ view.shown.nearest_front[1] > fog_min_start
    /\ LET fog == _fog_params(view.shown.nearest_front[1], view.shown.layers)
       IN  fog[1][1] < fog[1][2] /\ Alpha(fog[2]) < 255
    /\ \E op \in EntriesDrawn("front") : op.alpha = 255

\* The depths at which the last render could show a monster: those before
\* the nearest front wall, or all its layers if no wall is in sight.
Unoccluded ==
    IF view.shown.nearest_front # <<>>
    THEN 0..(view.shown.nearest_front[1] - 1)
    ELSE 0..(view.shown.layers - 1)

\* The cell d + 1 ahead and r to the side of the player.
CellAt(d, r) == transform_local(World, d + 1, r)

\* C31: every sprite of a render is at a depth before nearest_front, on a
\* cell that is no wall and holds a monster of its name, with the fog
\* parameters of its depth; and every monster on a cell
\* transform_local(d+1, r), r in -1..1, of an unoccluded depth d that is no
\* wall has a sprite there.
C31_MonstersInUnoccludedBands ==
    FirstPerson =>
        /\ \A e \in EntriesDrawn("monster") :
               LET c == CellAt(e.d, e.r)
                   fog == _fog_params(e.d, view.shown.layers)
               IN  /\ e.d \in Unoccluded
                   /\ ~is_wall(World, c[1], c[2])
                   /\ \E i \in 1..Len(monsters) :
                          /\ monsters[i].x = c[1] /\ monsters[i].y = c[2]
                          /\ monsters[i].name = e.name
                   /\ e.b = fog[1]
                   /\ e.alpha = Alpha(fog[2])
        /\ \A i \in 1..Len(monsters), d \in Unoccluded, r \in {-1, 0, 1} :
               (/\ CellAt(d, r) = <<monsters[i].x, monsters[i].y>>
                /\ ~is_wall(World, monsters[i].x, monsters[i].y)) =>
                   \E e \in EntriesDrawn("monster") : e.d = d /\ e.r = r

\* C31 witness: a render drew the sprite of a monster deep enough to be
\* dimmed, and a wall was in sight behind it.
C31_Witness ==
    /\ FirstPerson
    /\ view.shown.nearest_front # <<>>
    /\ \E e \in EntriesDrawn("monster") :
           /\ e.b[1] < e.b[2]
           /\ e.alpha < 255
           /\ e.d < view.shown.nearest_front[1]

\* C32: the horizontal and the vertical margin do not decrease from one
\* depth to the next and stay strictly below the centre of the screen, so
\* the front rectangle of every depth has a positive width and height.
C32_MarginsBelowCentre ==
    view.pc = "margins" =>
        /\ view.before[1] <= view.rect[1]
        /\ view.before[2] <= view.rect[2]
        /\ 2 * view.rect[1] < view_width
        /\ 2 * view.rect[2] < view_height
        /\ view.rect[3] - view.rect[1] > 0
        /\ view.rect[4] - view.rect[2] > 0

\* a rectangle narrower than the one before it, with the vertical margin
\* at its cap
C32_Witness ==
    /\ view.pc = "margins"
    /\ view.d > 1
    /\ view.rect[1] > view.before[1]
    /\ view.rect[2] = view_height \div 2 - 1

\* C33: while the pause menu or the map is open, no step of the frame loop
\* applies a movement command to the dungeon, and the grid, the player, the
\* visited cells, the items and the monsters stay as they are.
C33_NoMovementWhileOpen ==
    [][view.pc = "events" /\ (view.menu_open \/ view.map_open) =>
           /\ view'.cmds = view.cmds
           /\ <<grid, player, visited, items, monsters>>' =
                  <<grid, player, visited, items, monsters>>]_vars

\* The part of C33 that the code keeps: with the menu open neither a
\* key-down nor a held key applies a movement command, and with the map
\* open no held key does.
C33_MenuBlocksMovement ==
    [][/\ view.pc = "events"
       /\ view.menu_open \/ (view.map_open /\ view'.pc = "drain")
       => view'.cmds = view.cmds /\ player' = player]_vars

\* The sequence s without its j-th element.
DropAt(s, j) == SubSeq(s, 1, j - 1) \o SubSeq(s, j + 1, Len(s))

\* The last operation was a step.
Stepped == last.op \in {"step_forward", "step_back"}

\* C34: every monster of the list has hp > 0; a step that brings the
\* attacked monster to hp <= 0 takes it off the list in that step, and
\* every other monster stays on the list as it was.
C34_MonstersAlive ==
    /\ \A i \in 1..Len(monsters) : monsters[i].hp > 0
    /\ Stepped =>
           LET pre == last.pre
               j == _monster_at(pre, last.nx, last.ny)
               hp == pre.monsters[j].hp - Max(0, atk(pre.player))
           IN  IF j = 0 \/ is_wall(pre, last.nx, last.ny)
               THEN monsters = pre.monsters
               ELSE IF hp <= 0 THEN monsters = DropAt(pre.monsters, j)
               ELSE monsters = [pre.monsters EXCEPT ![j].hp = hp]

\* a step brought a monster to exactly 0 hp
C34_Witness ==
    /\ Stepped
    /\ Len(monsters) < Len(last.pre.monsters)
    /\ LET pre == last.pre
       IN  pre.monsters[_monster_at(pre, last.nx, last.ny)].hp =
               atk(pre.player)

\* Where the entities of the list s are and what they are, their hp apart.
Places(s) ==
    [i \in 1..Len(s) |->
        IF "hp" \in DOMAIN s[i] THEN [s[i] EXCEPT !.hp = 0] ELSE s[i]]

\* C35: a command leaves every monster and every item where and what it
\* was and adds none; at most it takes one monster off the list, the one
\* the player's blow brought to hp <= 0, and one item, the one on the cell
\* the player has entered; so neither count grows.
C35_EntitiesOnlyRemoved ==
    [][/\ \/ Places(monsters') = Places(monsters)
          \/ \E j \in 1..Len(monsters) :
                 /\ Places(monsters') = DropAt(Places(monsters), j)
                 /\ monsters[j].hp - Max(0, atk(player)) <= 0
                 /\ <<monsters[j].x, monsters[j].y>> = <<last'.nx, last'.ny>>
                 /\ last'.op \in {"step_forward", "step_back"}
       /\ \/ items' = items
          \/ \E j \in 1..Len(items) :
                 /\ items' = DropAt(items, j)
                 /\ <<items[j].x, items[j].y>> = <<player'.x, player'.y>>
                 /\ <<player.x, player.y>> # <<player'.x, player'.y>>
       /\ Len(monsters') <= Len(monsters)
       /\ Len(items') <= Len(items)]_vars

\* a step has defeated a monster, after gold was picked up
C35_Witness ==
    /\ Stepped
    /\ Len(monsters) < Len(last.pre.monsters)
    /\ Len(items) = Len(last.pre.items)
    /\ player.gold > 0

\* The cells of the entities of the list s, in order.
EntityCells(s) == [i \in 1..Len(s) |-> <<s[i].x, s[i].y>>]

\* The elements of the sequence s are pairwise distinct.
Distinct(s) == \A i, j \in 1..Len(s) : s[i] = s[j] => i = j

\* C36: no monster and no item is on the player's cell, and the items and
\* monsters are on pairwise distinct floor cells.
C36_EntitiesApart ==
    LET cells == EntityCells(items) \o EntityCells(monsters)
    IN  /\ \A i \in 1..Len(cells) :
               /\ cells[i] # <<player.x, player.y>>
               /\ ~is_wall(World, cells[i][1], cells[i][2])
        /\ Distinct(cells)

\* the player, having picked up gold, has just taken a defeated monster's
\* cell
C36_Witness ==
    /\ Stepped
    /\ <<player.x, player.y>> = <<last.nx, last.ny>>
    /\ _monster_at(last.pre, last.nx, last.ny) # 0
    /\ player.gold > 0

\* An iteration of the carving loop carved the wall cell c, of odd
\* coordinates, and pushed it.
CarvedAndPushed(c) ==
    /\ c[1] % 2 = 1 /\ c[2] % 2 = 1
    /\ gen.grid[c[2] + 1][c[1] + 1] = 1
    /\ gen'.grid[c[2] + 1][c[1] + 1] = 0
    /\ gen'.stack = Append(gen.stack, c)

\* An iteration of the carving loop popped the stack and carved nothing.
Popped ==
    /\ gen'.stack = SubSeq(gen.stack, 1, Len(gen.stack) - 1)
    /\ gen'.grid = gen.grid

\* Every interior cell of odd coordinates is floor and every cell of even
\* coordinates is wall, in the grid of the maze being generated.
LatticeCarved ==
    \A x \in 0..(gen.w - 1), y \in 0..(gen.h - 1) :
        /\ x % 2 = 1 /\ y % 2 = 1 /\ x <= gen.w - 2 /\ y <= gen.h - 2
           => gen.grid[y + 1][x + 1] = 0
        /\ x % 2 = 0 /\ y % 2 = 0 => gen.grid[y + 1][x + 1] = 1

\* C37: each iteration of the carving loop either carves a wall cell of
\* odd coordinates and pushes it, or pops the stack; when the stack is
\* empty every interior cell of odd coordinates is floor and every cell of
\* even coordinates is wall; and the loop ends, for every size.
C37_CarvingTerminates ==
    /\ [][gen.pc = "loop" /\ gen.stack # <<>> =>
              \/ Popped
              \/ \E x \in 1..(gen.w - 2), y \in 1..(gen.h - 2) :
                     CarvedAndPushed(<<x, y>>)]_vars
    /\ [](gen.pc = "loop" /\ gen.stack = <<>> => LatticeCarved)
    /\ <>(gen.pc = "done")

\* a 7 by 5 maze has been carved and returned
C37_Witness ==
    /\ gen.pc = "done"
    /\ gen.w = 7
    /\ gen.h = 5
    /\ LatticeCarved

\* C38: after load_dict(to_dict()), into the same dungeon or into another
\* one, the grid, the player record, the visited flags, the items and the
\* monsters are those that were saved.
C38_RoundTrip ==
    last.op = "round_trip" =>
        /\ grid = last.pre.grid
        /\ player = last.pre.player
        /\ visited = last.pre.visited
        /\ items = last.pre.items
        /\ monsters = last.pre.monsters

\* a world with a monster defeated, gold picked up and several cells
\* visited has been loaded into another dungeon
C38_Witness ==
    /\ last.op = "round_trip"
    /\ last.ret = <<"other">>
    /\ player.gold > 0
    /\ Cardinality(occupied) > 2
    /\ Len(monsters) < Len(DungeonInit(grid, 0, 0).monsters)
    /\ Len(items) < Len(DungeonInit(grid, 0, 0).items)

----------------------------------------------------------------------------
(* The text game.                                                          *)

\* C39: the state of the text game is menu, explore, combat or quit and no
\* assert fails; in explore there is a player, in combat a player and a
\* current enemy; and when a combat ends in explore, by victory or by
\* escape, there is no current enemy any more.
C39_TextGameStates ==
    /\ [](game.state \in {"menu", "explore", "combat", "quit"})
    /\ [](~game.raised)
    /\ [](game.state = "explore" => game.player # <<>>)
    /\ [](game.state = "combat" =>
              game.player # <<>> /\ game.current_enemy # <<>>)
    /\ [][game.state = "combat" /\ game'.state = "explore" =>
              game'.current_enemy = <<>>]_vars

\* back in explore after a combat that cost the player hp
C39_Witness ==
    /\ game.state = "explore"
    /\ game.origin = "new"
    /\ game.player[1].hp < 16
    /\ game.current_enemy = <<>>

\* C40: in a game started with New Game, the player has hp > 0 whenever
\* the state is explore or combat, for the step that brings the hp to
\* <= 0 is a combat step that sets the state to quit; the player loses hp
\* only to a current enemy with hp > 0; and the number of potions goes
\* down only by one, from a number > 0, so it is never negative.
C40_NewGameCombat ==
    /\ [](game.origin = "new" /\ game.state \in {"explore", "combat"} =>
              game.player[1].hp > 0)
    /\ [](game.origin = "new" => game.player[1].potions >= 0)
    /\ [][game.origin = "new" =>
              LET p == game.player[1]
                  q == game'.player[1]
              IN  /\ p.hp > 0 /\ q.hp <= 0 =>
                         game.state = "combat" /\ game'.state = "quit"
                  /\ q.hp < p.hp =>
                         /\ game'.current_enemy # <<>>
                         /\ game'.current_enemy[1].hp > 0
                  /\ q.potions < p.potions =>
                         /\ p.potions > 0
                         /\ q.potions = p.potions - 1
                         /\ game.state = "combat"]_vars

\* the player, out of potions, has fallen at exactly 0 hp
C40_Witness ==
    /\ game.origin = "new"
    /\ game.state = "quit"
    /\ game.player[1].hp = 0
    /\ game.player[1].potions = 0


====
